---- MODULE Spec2Model ----
(***************************************************************************)
(* A model of the reconciliation core of tanstack-table-adapter:           *)
(*   - the feature-flag resolver      (src/src/utils.ts, extractFeatureFlags)*)
(*   - the controlled/uncontrolled state hook                               *)
(*                                    (src/src/hooks.ts, useTableState, and *)
(*                                     src/src/utils.ts,                    *)
(*                                     createControlledHandler)             *)
(*                                                                         *)
(* JavaScript values are represented as follows.  The booleans of a        *)
(* feature flag are the strings "true" and "false" and the value undefined *)
(* is the string "undefined", so that a flag that holds undefined can be   *)
(* compared with one that holds a boolean.  An object is a function from   *)
(* its own keys to their values; an object that is absent is told apart    *)
(* by a separate has... field.                                             *)
(***************************************************************************)
EXTENDS Integers, Sequences, FiniteSets, TLC

VARIABLES
    props,      \* the props of the last render pass handed to extractFeatureFlags
    features,   \* the record returned by the last call of extractFeatureFlags
    dirtied     \* history: a call before the last one returned a record that
                \* differs from the built-in defaults

flagVars == <<props, features, dirtied>>

VARIABLES
    tprops,     \* the props of the last render pass of the table component
    store,      \* the useState values of useTableState, one per slice
    pending,    \* per slice, the values handed to its useState setter since
                \* the last render pass, in order (React applies them in the
                \* next pass)
    current,    \* per slice, the current<Slice> value returned by the last pass
    handlers,   \* per slice, the handle<Slice>Change closure returned by the
                \* last pass: what createControlledHandler captured
    lastCall,   \* the last call of a handler since the last pass: the
                \* updater it was given, and its effects: the invocations of
                \* the caller's callback and of the useState setter
    calls,      \* history: the handler calls since the last pass that called
                \* a useState setter, in order, each with its slice and the
                \* updater it was given (one entry per entry of pending)
    crashed     \* a render pass has thrown: React has unmounted the component

hookVars == <<tprops, store, pending, current, handlers, lastCall, calls, crashed>>

VARIABLES
    serverOptions,  \* what the caller hands to useServerSideData: the fields of
                    \* serverOptions the hook reads, whether onError is
                    \* supplied, and whether the serverOptions object is the
                    \* same one in every pass
    query,          \* table.getState(): pagination, sorting, column filters
                    \* and global filter, taken together as one key
    fetchState,     \* the five useState values of useServerSideData
    inflight,       \* the calls of serverOptions.fetchData that have not
                    \* settled, each with its number and the query it was given
    started,        \* the number of calls of serverOptions.fetchData so far
    renderDue,      \* a useState value of the hook has changed since the last
                    \* pass: React will render again
    lastSettled     \* history: the call of serverOptions.fetchData that
                    \* settled last, with what it settled with and the
                    \* callbacks the hook invoked

serverVars ==
    <<serverOptions, query, fetchState, inflight, started, renderDue, lastSettled>>

VARIABLES
    provider,       \* the enclosing TableConfigProvider, if there is one: the
                    \* initialClassNames it was mounted with and its useState
                    \* value defaultClassNames
    lastSet,        \* history: the argument of the last call of
                    \* setDefaultClassNames
    adapter,        \* the last render pass of a TableAdapter under the
                    \* provider: its classNames prop and the class names it
                    \* used
    configResult    \* the outcome of the last call of useTableConfig by a
                    \* component: what it threw or what it returned

configVars == <<provider, lastSet, adapter, configResult>>

VARIABLES
    sprops,         \* the server props of the last render pass of a table
                    \* component: server.manualPagination,
                    \* server.autoResetPageIndex and the two flat props
    server          \* what that pass handed to the grid engine:
                    \* manualPagination and autoResetPageIndex, by the
                    \* component of src/unnamed/part_006 and by the one of
                    \* src/src/TableAdapter.tsx

optionVars == <<sprops, server>>

VARIABLES
    exportData,     \* the rows handed to useTableExport
    rowSelection,   \* the indices of the rows selected in the table
    exportOptions,  \* the options handed to useTableExport
    exported        \* the last CSV export: whether one was made, the merged
                    \* options and the rows written

exportVars == <<exportData, rowSelection, exportOptions, exported>>

VARIABLES
    formIn,         \* what the caller hands to useTableForm: whether onSubmit
                    \* is supplied
    formState,      \* the three useState values of useTableForm as the last
                    \* render pass returned them, which is what
                    \* handleCellChange and handleSubmit of that pass
                    \* captured; formData is read through its row objects,
                    \* which the arrays of all passes and the caller's
                    \* initialData share
    formQueue,      \* the handler calls made since the last render pass, in
                    \* order, each standing for the setter calls it made
    lastSubmit      \* the last call of handleSubmit: what it returned and
                    \* the call of onSubmit it made

formVars == <<formIn, formState, formQueue, lastSubmit>>

VARIABLES
    gprops,         \* what the caller hands to the component: the data and
                    \* error props, whether render.renderError is supplied,
                    \* and features.formMode
    grid            \* the component after its last pass: its error and
                    \* tableData state, the data and pageCount options it
                    \* gave the table, the formData of its useTableForm, what
                    \* the pass returned, and (history) the settled fetch
                    \* that pass had seen

gridVars == <<gprops, grid>>

auxVars == <<configVars, optionVars, exportVars, formVars, gridVars>>

vars == <<flagVars, hookVars, serverVars, auxVars>>

----------------------------------------------------------------------------
(* Bounds of the model.                                                    *)

\* At most this many fields are supplied by the caller in one props object
\* of the feature-flag resolver (own keys of props.features plus defined
\* legacy enable* props, counted together).
MaxSupplied == 2

----------------------------------------------------------------------------
(* JavaScript values.                                                      *)

Undefined == "undefined"

JsBooleans == {"true", "false"}

\* What a caller can store in a field of type boolean | undefined.
FlagValues == JsBooleans \cup {Undefined}

----------------------------------------------------------------------------
(* extractFeatureFlags, src/src/utils.ts:186-238.                          *)

\* The fifteen fields of TableFeatures.
FeatureNames ==
    { "pagination", "sorting", "multiSort", "columnFilters", "globalFilter",
      "columnResizing", "rowSelection", "expanding", "columnOrdering",
      "pinning", "stickyHeader", "grouping", "formMode", "virtualization",
      "sortingRemoval" }

\* A key that is not a field of TableFeatures: an unrecognized field that a
\* caller may put into props.features.
UnknownKey == "unknownFeature"

GroupedKeys == FeatureNames \cup {UnknownKey}

\* The legacy flat props read by extractFeatureFlags, in the order of its
\* twelve if statements, each with the field of the record it assigns.
LegacyAssignments ==
    << <<"enablePagination",     "pagination">>,
       <<"enableSorting",        "sorting">>,
       <<"enableMultiSort",      "multiSort">>,
       <<"enableColumnFilters",  "columnFilters">>,
       <<"enableGlobalFilter",   "globalFilter">>,
       <<"enableColumnResizing", "columnResizing">>,
       <<"enableRowSelection",   "rowSelection">>,
       <<"enableExpanding",      "expanding">>,
       <<"enablePinning",        "pinning">>,
       <<"enableStickyHeader",   "stickyHeader">>,
       <<"enableGrouping",       "grouping">>,
       <<"enableSortingRemoval", "sortingRemoval">> >>

LegacyNames == { LegacyAssignments[i][1] : i \in DOMAIN LegacyAssignments }

\* The literal with sortingRemoval, the field listed last, left at false.
DefaultFeaturesRemovalOff ==
    [ pagination     |-> "true",
      sorting        |-> "true",
      multiSort      |-> "true",
      columnFilters  |-> "false",
      globalFilter   |-> "false",
      columnResizing |-> "false",
      rowSelection   |-> "false",
      expanding      |-> "false",
      columnOrdering |-> "false",
      pinning        |-> "false",
      stickyHeader   |-> "false",
      grouping       |-> "false",
      formMode       |-> "false",
      virtualization |-> "false",
      sortingRemoval |-> "false" ]

\* The literal the function starts from.
DefaultFeatures ==
    [ pagination     |-> "true",
      sorting        |-> "true",
      multiSort      |-> "true",
      columnFilters  |-> "false",
      globalFilter   |-> "false",
      columnResizing |-> "false",
      rowSelection   |-> "false",
      expanding      |-> "false",
      columnOrdering |-> "false",
      pinning        |-> "false",
      stickyHeader   |-> "false",
      grouping       |-> "false",
      formMode       |-> "false",
      virtualization |-> "false",
      sortingRemoval |-> "true" ]

\* No record: extractFeatureFlags has not been called yet.
NoRecord == << >>

\* A module-level defaults object that every call would assign into: the
\* record of the previous call, once there is one.
NewFeaturesShared ==
    IF DOMAIN features = {} THEN DefaultFeatures ELSE features

\* const features: TableFeatures = { ... }: a new object on every call.
NewFeatures == DefaultFeatures

\* Object.assign that leaves out the source's keys whose value is undefined.
ObjectAssignDefined(target, source) ==
    [ k \in DOMAIN target \cup { j \in DOMAIN source : source[j] # Undefined } |->
        IF k \in DOMAIN source /\ source[k] # Undefined
        THEN source[k] ELSE target[k] ]

\* Object.assign(target, source): every own key of source is written to
\* target, whatever its value, and is added when target has no such key.
ObjectAssign(target, source) ==
    [ k \in DOMAIN target \cup DOMAIN source |->
        IF k \in DOMAIN source THEN source[k] ELSE target[k] ]

\* if (props.features) { Object.assign(features, props.features); }
\* with the call left out.
ApplyGroupedSkipped(f, p) == f

\* if (props.features) { Object.assign(features, props.features); }
ApplyGrouped(f, p) ==
    IF p.hasFeatures THEN ObjectAssign(f, p.features) ELSE f

\* if (props.<legacy> !== undefined) features.<field> = props.<legacy>;
\* for the first n of the twelve statements, in order.
RECURSIVE ApplyLegacy(_, _, _)
ApplyLegacy(f, p, n) ==
    IF n = 0 THEN f
    ELSE LET g     == ApplyLegacy(f, p, n - 1)
             name  == LegacyAssignments[n][1]
             field == LegacyAssignments[n][2]
         IN  IF p.legacy[name] # Undefined
             THEN [ k \in DOMAIN g \cup {field} |->
                      IF k = field THEN p.legacy[name] ELSE g[k] ]
             ELSE g

\* The legacy props applied first and the grouped object last.
extractFeatureFlagsGroupedLast(p) ==
    ApplyGrouped(ApplyLegacy(NewFeatures, p, Len(LegacyAssignments)), p)

extractFeatureFlags(p) ==
    ApplyLegacy(ApplyGrouped(NewFeatures, p), p, Len(LegacyAssignments))

----------------------------------------------------------------------------
(* The props a caller hands to the resolver.                               *)

EmptyProps ==
    [ hasFeatures |-> FALSE,
      features    |-> << >>,
      legacy      |-> [ n \in LegacyNames |-> Undefined ] ]

\* The number of fields the caller supplies in p.
Supplied(p) ==
    Cardinality(DOMAIN p.features)
      + Cardinality({ n \in LegacyNames : p.legacy[n] # Undefined })

\* p with the own key k of props.features set to v (the object is created
\* when absent).
WithFeature(p, k, v) ==
    [ p EXCEPT !.hasFeatures = TRUE,
               !.features = [ j \in DOMAIN p.features \cup {k} |->
                                IF j = k THEN v ELSE p.features[j] ] ]

\* p without the own key k of props.features.
WithoutFeature(p, k) ==
    [ p EXCEPT !.features = [ j \in DOMAIN p.features \ {k} |-> p.features[j] ] ]

\* p with the legacy prop n set to v (undefined: not supplied).
WithLegacy(p, n, v) == [ p EXCEPT !.legacy[n] = v ]

\* The props of the next render pass: those of this pass with one field
\* changed, or the same props again.
NextProps(p) ==
    LET all ==
          {p}
            \cup { WithFeature(p, k, v) : k \in GroupedKeys, v \in FlagValues }
            \cup { WithoutFeature(p, k) : k \in DOMAIN p.features }
            \cup { WithLegacy(p, n, v) : n \in LegacyNames, v \in FlagValues }
            \cup { [ p EXCEPT !.hasFeatures = TRUE ] }
            \cup { [ p EXCEPT !.hasFeatures = FALSE, !.features = << >> ] }
    IN  { q \in all : Supplied(q) <= MaxSupplied }

----------------------------------------------------------------------------
(* useTableState, src/src/hooks.ts:30-284: the values of the slices.       *)
(*                                                                         *)
(* An array is a sequence, a string is a string, an object used as a map   *)
(* (VisibilityState, RowSelectionState, ExpandedState) is the set of its   *)
(* <<key, value>> pairs, PaginationState and ColumnPinningState are        *)
(* records.  The hook never looks into a value; it only passes it on.      *)

\* The ten slices of table state.
Slices ==
    { "pagination", "sorting", "columnFilters", "globalFilter",
      "columnVisibility", "rowSelection", "expanded", "columnOrder",
      "columnPinning", "grouping" }

\* The last page index a "next page" updater steps to.
MaxPage == 2

\* At most this many setter calls of one slice between two render passes.
MaxPending == 2

\* The built-in default of each slice: the last operand of its ?? chain.
DefaultValue(s) ==
    CASE s = "pagination"       -> [ pageIndex |-> 0, pageSize |-> 10 ]
      [] s = "sorting"          -> << >>
      [] s = "columnFilters"    -> << >>
      [] s = "globalFilter"     -> ""
      [] s = "columnVisibility" -> {}
      [] s = "rowSelection"     -> {}
      [] s = "expanded"         -> {}
      [] s = "columnOrder"      -> << >>
      [] s = "columnPinning"    -> [ left |-> << >>, right |-> << >> ]
      [] s = "grouping"         -> << >>

\* The value a caller supplies for a slice in the grouped props.state.
GroupedValue(s) ==
    CASE s = "pagination"       -> [ pageIndex |-> 1, pageSize |-> 20 ]
      [] s = "sorting"          -> << [ id |-> "name", desc |-> FALSE ] >>
      [] s = "columnFilters"    -> << [ id |-> "name", value |-> "a" ] >>
      [] s = "globalFilter"     -> "a"
      [] s = "columnVisibility" -> { <<"name", FALSE>> }
      [] s = "rowSelection"     -> { <<"0", TRUE>> }
      [] s = "expanded"         -> { <<"0", TRUE>> }
      [] s = "columnOrder"      -> << "name", "age" >>
      [] s = "columnPinning"    -> [ left |-> << "name" >>, right |-> << >> ]
      [] s = "grouping"         -> << "name" >>

\* The value a caller supplies for a slice in the legacy flat props (for
\* pagination: the flat props pageIndex and pageSize taken together).
FlatValue(s) ==
    CASE s = "pagination"       -> [ pageIndex |-> 2, pageSize |-> 50 ]
      [] s = "sorting"          -> << [ id |-> "name", desc |-> TRUE ] >>
      [] s = "columnFilters"    -> << [ id |-> "name", value |-> "b" ] >>
      [] s = "globalFilter"     -> "b"
      [] s = "columnVisibility" -> { <<"age", FALSE>> }
      [] s = "rowSelection"     -> { <<"1", TRUE>> }
      [] s = "expanded"         -> { <<"1", TRUE>> }
      [] s = "columnOrder"      -> << "age", "name" >>
      [] s = "columnPinning"    -> [ left |-> << >>, right |-> << "name" >> ]
      [] s = "grouping"         -> << "age" >>

\* The literal values a caller of a handler passes as the next value.
LiteralValues(s) == { DefaultValue(s), GroupedValue(s), FlatValue(s) }

\* The legacy flat props that carry slice values: the slice's own name, and
\* pageIndex and pageSize for pagination.
FlatProps == (Slices \ {"pagination"}) \cup {"pageIndex", "pageSize"}

\* The flat props of slice s.
FlatPropsOf(s) == IF s = "pagination" THEN {"pageIndex", "pageSize"} ELSE {s}

\* The value the caller supplies in flat prop k.
FlatPropValue(k) ==
    CASE k = "pageIndex" -> FlatValue("pagination").pageIndex
      [] k = "pageSize"  -> FlatValue("pagination").pageSize
      [] OTHER           -> FlatValue(k)

----------------------------------------------------------------------------
(* The props read by useTableState.                                        *)

Null == "null"

\* The function a caller puts into props.onStateChange.on<Slice>Change and
\* the one it puts into the flat props.on<Slice>Change.
GroupedFn == "groupedFn"
FlatFn == "flatFn"

Functions == {GroupedFn, FlatFn}

\* onStateChange: per slice, props.onStateChange?.on<Slice>Change;
\* on:            per slice, the flat props.on<Slice>Change;
\* state:         props.state, a function from the slices it has to their
\*                values;
\* flat:          the flat value props that are supplied, a function from
\*                their names to their values.
EmptyTableProps ==
    [ onStateChange |-> [ s \in Slices |-> Undefined ],
      on            |-> [ s \in Slices |-> Undefined ],
      state         |-> << >>,
      flat          |-> << >> ]

\* a ?? b on callbacks.
Coalesce(a, b) == IF a \in {Undefined, Null} THEN b ELSE a

\* !!a on callbacks.
Truthy(a) == a \in Functions

\* const initialPageSize = props.state?.pagination?.pageSize ?? props.pageSize ?? 10
\* and so on for every slice: the grouped value, else the flat one, else
\* the default.
InitialValue(p, s) ==
    IF s = "pagination"
    THEN [ pageIndex |->
             IF s \in DOMAIN p.state THEN p.state[s].pageIndex
             ELSE IF "pageIndex" \in DOMAIN p.flat THEN p.flat["pageIndex"]
             ELSE DefaultValue(s).pageIndex,
           pageSize |->
             IF s \in DOMAIN p.state THEN p.state[s].pageSize
             ELSE IF "pageSize" \in DOMAIN p.flat THEN p.flat["pageSize"]
             ELSE DefaultValue(s).pageSize ]
    ELSE IF s \in DOMAIN p.state THEN p.state[s]
    ELSE IF s \in DOMAIN p.flat THEN p.flat[s]
    ELSE DefaultValue(s)

\* const onSortingChange = props.onStateChange?.onSortingChange ?? props.onSortingChange
\* and so on for every slice.
OnChange(p, s) == Coalesce(p.onStateChange[s], p.on[s])

\* A slice classified as controlled when a value is supplied for it.
IsControlledByValue(p, s) ==
    s \in DOMAIN p.state \/ FlatPropsOf(s) \cap DOMAIN p.flat # {}

\* const isControlled = { sorting: !!onSortingChange, ... }
IsControlled(p, s) == Truthy(OnChange(p, s))

\* The classification of the component of src/src/TableAdapter.tsx, which
\* reads the flat callbacks only: const onSortingChange = props.onSortingChange;
\* const isControlled = { sorting: !!onSortingChange, ... }
IsControlledFlat(p, s) == Truthy(p.on[s])

\* The value of the props read also for an uncontrolled slice.
CurrentValueProvided(p, st, s) == InitialValue(p, s)

\* const currentSorting = isControlled.sorting ? initialSorting : sortingState
CurrentValue(p, st, s) ==
    IF IsControlled(p, s) THEN InitialValue(p, s) ELSE st[s]

\* createControlledHandler(isControlled, externalHandler, internalSetter,
\* getCurrentValue), src/src/utils.ts:165-170: what the returned closure
\* holds.  internalSetter is named by the slice whose useState it sets;
\* getCurrentValue is () => current<Slice>, the value of this pass.
createControlledHandler(isControlled, externalHandler, internalSetter, currentValue) ==
    [ isControlled    |-> isControlled,
      externalHandler |-> externalHandler,
      internalSetter  |-> internalSetter,
      current         |-> currentValue ]

\* The setters with those of columnOrder and columnPinning exchanged.
SetterOfCrossed(s) ==
    CASE s = "columnOrder"   -> "columnPinning"
      [] s = "columnPinning" -> "columnOrder"
      [] OTHER               -> s

\* The setter handed to the handler of slice s: setPaginationState for
\* handlePaginationChange, setSortingState for handleSortingChange, and so
\* on, each the setter of the slice's own useState.
SetterOf(s) == s

\* A handler that reads the useState value also for a controlled slice.
HandlerOfStored(p, st, s) ==
    createControlledHandler(IsControlled(p, s), OnChange(p, s), SetterOf(s), st[s])

\* The handler of slice s built by a pass with props p and useState values st.
HandlerOf(p, st, s) ==
    createControlledHandler(IsControlled(p, s), OnChange(p, s), SetterOf(s),
                            CurrentValue(p, st, s))

----------------------------------------------------------------------------
(* The handler returned by createControlledHandler, src/src/utils.ts:171-182.*)

\* The functions a caller of a handler passes as updater: "next" computes a
\* value from the previous one (the next page; the next sort state),
\* "constant" returns the same value whatever the previous one is, "throws"
\* throws.
UpdaterFns == {"next", "constant", "throws"}

\* updater: T | ((prev: T) => T)
Updaters(s) ==
    { [ kind |-> "value", value |-> v, fn |-> "none" ] : v \in LiteralValues(s) }
      \cup { [ kind |-> "function", value |-> DefaultValue(s), fn |-> f ] :
               f \in UpdaterFns }

\* The value "next" computes from prev: the following page for pagination,
\* and for the other slices the value after prev in the cycle default,
\* grouped value, flat value.
NextValue(s, prev) ==
    IF s = "pagination" THEN [ prev EXCEPT !.pageIndex = @ + 1 ]
    ELSE IF prev = DefaultValue(s) THEN GroupedValue(s)
    ELSE IF prev = GroupedValue(s) THEN FlatValue(s)
    ELSE DefaultValue(s)

\* (updater as (prev: T) => T)(prev) for the functions that return.
ApplyFn(f, s, prev) ==
    IF f = "next" THEN NextValue(s, prev) ELSE GroupedValue(s)

\* A handler call that did nothing but throw.
Thrown == [ threw |-> TRUE, callback |-> << >>, setter |-> << >> ]

\* The handler with the else left out: the useState setter is called for a
\* controlled slice too.
HandlerCallAlwaysSets(h, s, u) ==
    IF u.kind = "function" /\ u.fn = "throws"
    THEN Thrown
    ELSE LET newValue == IF u.kind = "function"
                         THEN ApplyFn(u.fn, s, h.current)
                         ELSE u.value
         IN  [ threw    |-> FALSE,
               callback |-> IF h.isControlled /\ Truthy(h.externalHandler)
                            THEN << [ fn |-> h.externalHandler, arg |-> newValue ] >>
                            ELSE << >>,
               setter   |-> << newValue >> ]

\* The handler that hands the callback the value of the pass instead of the
\* new one.
HandlerCallPassesCurrent(h, s, u) ==
    IF u.kind = "function" /\ u.fn = "throws"
    THEN Thrown
    ELSE LET newValue == IF u.kind = "function"
                         THEN ApplyFn(u.fn, s, h.current)
                         ELSE u.value
         IN  IF h.isControlled /\ Truthy(h.externalHandler)
             THEN [ threw    |-> FALSE,
                    callback |-> << [ fn |-> h.externalHandler, arg |-> h.current ] >>,
                    setter   |-> << >> ]
             ELSE [ threw    |-> FALSE,
                    callback |-> << >>,
                    setter   |-> << newValue >> ]

\* The handler with the else branch empty: nothing happens for an
\* uncontrolled slice.
HandlerCallNoElse(h, s, u) ==
    IF u.kind = "function" /\ u.fn = "throws"
    THEN Thrown
    ELSE LET newValue == IF u.kind = "function"
                         THEN ApplyFn(u.fn, s, h.current)
                         ELSE u.value
         IN  IF h.isControlled /\ Truthy(h.externalHandler)
             THEN [ threw    |-> FALSE,
                    callback |-> << [ fn |-> h.externalHandler, arg |-> newValue ] >>,
                    setter   |-> << >> ]
             ELSE [ threw    |-> FALSE,
                    callback |-> << >>,
                    setter   |-> << >> ]

\* The handler h of slice s called with updater u: whether it threw, the
\* calls of the caller's callback it made (the function called and its
\* argument) and the calls of the useState setter it made (the argument).
HandlerCall(h, s, u) ==
    IF u.kind = "function" /\ u.fn = "throws"
    THEN Thrown
    ELSE LET newValue == IF u.kind = "function"
                         THEN ApplyFn(u.fn, s, h.current)
                         ELSE u.value
         IN  IF h.isControlled /\ Truthy(h.externalHandler)
             THEN [ threw    |-> FALSE,
                    callback |-> << [ fn |-> h.externalHandler, arg |-> newValue ] >>,
                    setter   |-> << >> ]
             ELSE [ threw    |-> FALSE,
                    callback |-> << >>,
                    setter   |-> << newValue >> ]

\* Queued setter calls that are lost.
CommitNone(v, q) == v

\* The useState value after React has applied the queued setter calls q to
\* v: every call passed a value, so the last one stands.
Commit(v, q) == IF q = << >> THEN v ELSE q[Len(q)]

\* A useState that takes its argument again in a pass with nothing queued.
UseStateReseeded(stored, queued, initial) ==
    IF queued = << >> THEN initial ELSE Commit(stored, queued)

\* useState(initial) in a pass after the first: the argument is ignored, the
\* value is the stored one with the queued setter calls applied.
UseState(stored, queued, initial) == Commit(stored, queued)

----------------------------------------------------------------------------
(* The props of a pass, as the caller varies them.                         *)

\* The slices p supplies something for: a callback, null included, or a value.
SuppliedSlices(p) ==
    { s \in Slices :
        \/ p.onStateChange[s] # Undefined
        \/ p.on[s] # Undefined
        \/ s \in DOMAIN p.state
        \/ FlatPropsOf(s) \cap DOMAIN p.flat # {} }

CallbackValues(fn) == {Undefined, Null, fn}

\* f with key k mapped to v, k added when f has no such key.
Put(f, k, v) == [ j \in DOMAIN f \cup {k} |-> IF j = k THEN v ELSE f[j] ]

\* f without key k.
Drop(f, k) == [ j \in DOMAIN f \ {k} |-> f[j] ]

\* The props of the next pass: those of this pass with one prop of slice s
\* changed, or the same props again.
NextTableProps(p, s) ==
    {p}
      \cup { [ p EXCEPT !.onStateChange[s] = c ] : c \in CallbackValues(GroupedFn) }
      \cup { [ p EXCEPT !.on[s] = c ] : c \in CallbackValues(FlatFn) }
      \cup { [ p EXCEPT !.state = Put(p.state, s, GroupedValue(s)) ],
             [ p EXCEPT !.state = Drop(p.state, s) ] }
      \cup { [ p EXCEPT !.flat = Put(p.flat, k, FlatPropValue(k)) ] : k \in FlatPropsOf(s) }
      \cup { [ p EXCEPT !.flat = Drop(p.flat, k) ] : k \in FlatPropsOf(s) }

\* f restricted to the keys in K.
Restrict(f, K) == [ j \in K |-> f[j] ]

\* The props of the first pass that supply something for slice s only.
FirstTableProps(s) ==
    { [ onStateChange |-> [ EmptyTableProps.onStateChange EXCEPT ![s] = g ],
        on            |-> [ EmptyTableProps.on EXCEPT ![s] = l ],
        state         |-> Restrict([ t \in Slices |-> GroupedValue(t) ], G),
        flat          |-> Restrict([ k \in FlatProps |-> FlatPropValue(k) ], F) ] :
        g \in CallbackValues(GroupedFn), l \in CallbackValues(FlatFn),
        G \in SUBSET {s}, F \in SUBSET FlatPropsOf(s) }

----------------------------------------------------------------------------
(* useServerSideData, src/src/hooks.ts:299-383: values.                    *)

\* The table states a fetch can be made for: 0 .. MaxQuery.
MaxQuery == 1

\* At most this many calls of serverOptions.fetchData.
MaxFetches == 2

Queries == 0 .. MaxQuery

FetchFn == "fetchFn"

\* fetchData and the three manual flags are fields of serverOptions; onError
\* is the hook's third parameter, onFetchError a field of serverOptions
\* (TRUE: supplied); stable: the caller hands the hook the same serverOptions
\* object in every pass (the hook's fetchData is rebuilt when it changes).
ServerOptionsSet ==
    [ fetchData        : {Undefined, FetchFn},
      manualPagination : BOOLEAN,
      manualSorting    : BOOLEAN,
      manualFiltering  : BOOLEAN,
      onError          : BOOLEAN,
      onFetchError     : BOOLEAN,
      stable           : BOOLEAN ]

\* No server options: the hook never fetches.
NoServerOptions ==
    [ fetchData        |-> Undefined,
      manualPagination |-> FALSE,
      manualSorting    |-> FALSE,
      manualFiltering  |-> FALSE,
      onError          |-> FALSE,
      onFetchError     |-> FALSE,
      stable           |-> TRUE ]

\* useState(false), useState([]), useState(0), useState(0), useState(null);
\* error is the empty sequence for null and a sequence of one Error otherwise.
InitialFetchState ==
    [ isLoading     |-> FALSE,
      data          |-> << >>,
      pageCount     |-> 0,
      totalRowCount |-> 0,
      error         |-> << >> ]

\* The rows the server holds for query q.
RowsOf(q) == << [ id |-> q ] >>

\* What the caller's fetch function can resolve with for query q: a page
\* with or without totalRowCount, or an empty result.
Responses(q) ==
    { [ data |-> RowsOf(q), pageCount |-> q + 1, totalRowCount |-> 10 * (q + 1) ],
      [ data |-> RowsOf(q), pageCount |-> q + 1 ],
      [ data |-> << >>, pageCount |-> 0, totalRowCount |-> 0 ] }

\* What the caller's fetch function can reject with: an Error, or a value
\* that is not an Error.
Rejections ==
    { [ isError |-> TRUE,  message |-> "boom" ],
      [ isError |-> FALSE, message |-> "timeout" ] }

\* The rejection handed to setError and to the callbacks as it came.
WrapErrorAsIs(err) == err

\* const error = err instanceof Error ? err : new Error(String(err));
WrapError(err) ==
    IF err.isError THEN err ELSE [ isError |-> TRUE, message |-> err.message ]

NoResult == [ data |-> << >>, pageCount |-> 0 ]

NoRejection == [ isError |-> FALSE, message |-> "" ]

\* The last call of the hook's fetchData that has run to its end: the fetch
\* it made, what the caller's function settled with (result or rejection),
\* the error the catch block built, the callbacks it called with it, and how
\* the promise of the async function settled.
NoSettle ==
    [ id |-> 0, query |-> 0, ok |-> FALSE, result |-> NoResult,
      rejection |-> NoRejection, error |-> << >>, notified |-> << >>,
      promise |-> "none" ]

\* The hook in a component that configures no server.
ServerIdle ==
    /\ serverOptions = NoServerOptions
    /\ query = 0
    /\ fetchState = InitialFetchState
    /\ inflight = {}
    /\ started = 0
    /\ renderDue = FALSE
    /\ lastSettled = NoSettle

----------------------------------------------------------------------------
(* TableConfigContext, src/unnamed/part_008, and mergeClassNames,          *)
(* src/src/utils.ts:149-162: values.                                       *)

\* The keys of DefaultTableClassNames.
ClassKeys ==
    { "table", "thead", "theadRow", "theadCell", "tbody", "tbodyRow",
      "tbodyCell", "header", "body" }

DEFAULT_TABLE_CLASSNAMES ==
    [ table     |-> "min-w-full divide-y divide-gray-200",
      thead     |-> "bg-gray-50",
      theadRow  |-> "",
      theadCell |-> "px-6 py-3 text-left text-xs font-medium text-gray-500 uppercase tracking-wider",
      tbody     |-> "bg-white divide-y divide-gray-200",
      tbodyRow  |-> "",
      tbodyCell |-> "px-6 py-4 whitespace-nowrap text-sm text-gray-500",
      header    |-> "bg-gray-50",
      body      |-> "bg-white divide-y divide-gray-200" ]

\* The keys the callers of the model style, and what they put there: a class
\* string, or undefined (Partial<DefaultTableClassNames> allows a key that is
\* present and holds undefined).
StyledKeys == { "table", "tbodyRow" }

ClassValues == { "custom", Undefined }

\* The Partial<DefaultTableClassNames> objects of the callers.
Partials == UNION { [ K -> ClassValues ] : K \in SUBSET StyledKeys }

\* The initialClassNames a provider is mounted with: nothing, or one key.
InitialPartials == { c \in Partials : Cardinality(DOMAIN c) <= 1 }

\* mergeClassNames with the two levels the other way round: the defaults
\* are assigned over the component's class names.
mergeClassNamesDefaultsWin(defaultClassNames, componentClassNames) ==
    IF componentClassNames.supplied
    THEN ObjectAssign(componentClassNames.value, defaultClassNames)
    ELSE defaultClassNames

\* const merged = { ...defaultClassNames };
\* if (componentClassNames) Object.assign(merged, componentClassNames);
\* The second argument is [supplied, value]: supplied is that it is not
\* undefined.
mergeClassNames(defaultClassNames, componentClassNames) ==
    IF componentClassNames.supplied
    THEN ObjectAssign(defaultClassNames, componentClassNames.value)
    ELSE defaultClassNames

\* An updater that starts again from the built-in defaults.
ReplaceDefaults(prev, classNames) ==
    ObjectAssign(DEFAULT_TABLE_CLASSNAMES, classNames)

\* setDefaultClassNamesState((prev) => ({ ...prev, ...classNames }))
MergeDefaults(prev, classNames) == ObjectAssign(prev, classNames)

\* useMemo(() => ({ ...DEFAULT_TABLE_CLASSNAMES, ...initialClassNames }), [])
InitialMergedClassNames(initialClassNames) ==
    ObjectAssign(DEFAULT_TABLE_CLASSNAMES, initialClassNames)

NoProvider ==
    [ present |-> FALSE, initialClassNames |-> NoRecord,
      defaultClassNames |-> NoRecord ]

ProviderMessage == "useTableConfig must be used within a TableConfigProvider"

\* A useTableConfig that hands out the built-in defaults when there is no
\* provider.
useTableConfigLenient(p) ==
    IF p.present
    THEN [ threw |-> FALSE, message |-> "",
           defaultClassNames |-> p.defaultClassNames,
           setDefaultClassNames |-> TRUE ]
    ELSE [ threw |-> FALSE, message |-> "",
           defaultClassNames |-> DEFAULT_TABLE_CLASSNAMES,
           setDefaultClassNames |-> FALSE ]

\* const context = useContext(TableConfigContext);
\* if (context === undefined) throw new Error("useTableConfig must ...");
\* return context;
\* setDefaultClassNames: the result holds the provider's setter.
useTableConfig(p) ==
    IF p.present
    THEN [ threw |-> FALSE, message |-> "",
           defaultClassNames |-> p.defaultClassNames,
           setDefaultClassNames |-> TRUE ]
    ELSE [ threw |-> TRUE, message |-> ProviderMessage,
           defaultClassNames |-> NoRecord,
           setDefaultClassNames |-> FALSE ]

\* try { return useTableConfig().defaultClassNames }
\* catch { return DEFAULT_TABLE_CLASSNAMES }
useDefaultTableClassNames(p) ==
    LET r == useTableConfig(p)
    IN  IF r.threw THEN DEFAULT_TABLE_CLASSNAMES ELSE r.defaultClassNames

NoClassNames == [ supplied |-> FALSE, value |-> NoRecord ]

\* The classNames a TableAdapter can be given: none, or a partial object.
ComponentClassNames ==
    { NoClassNames } \cup { [ supplied |-> TRUE, value |-> c ] : c \in Partials }

NoAdapter ==
    [ rendered |-> FALSE, classNames |-> NoClassNames,
      threw |-> FALSE, merged |-> NoRecord ]

\* A render pass of the TableAdapter of src/unnamed/part_006 under provider
\* p: useDefaultTableClassNames() and mergeClassNames(defaultClassNames,
\* styling.classNames).
AdapterPass(p, c) ==
    [ rendered |-> TRUE, classNames |-> c, threw |-> FALSE,
      merged |-> mergeClassNames(useDefaultTableClassNames(p), c) ]

NoConfigResult ==
    [ called |-> FALSE, threw |-> FALSE, message |-> "",
      defaultClassNames |-> NoRecord, setDefaultClassNames |-> FALSE ]

\* No provider, no adapter under it, and no call made.
ConfigIdle ==
    /\ provider = NoProvider
    /\ lastSet = NoClassNames
    /\ adapter = NoAdapter
    /\ configResult = NoConfigResult

----------------------------------------------------------------------------
(* The server options of the components, src/unnamed/part_006:310-326 and  *)
(* src/src/TableAdapter.tsx:108-116: values.                               *)

\* The four props are boolean | undefined; a caller that is not type-checked
\* can also hand in null, which ?? treats as undefined.
OptionValues == FlagValues \cup {Null}

ServerProps ==
    [ groupedManualPagination   : OptionValues,
      flatManualPagination      : OptionValues,
      groupedAutoResetPageIndex : OptionValues,
      flatAutoResetPageIndex    : OptionValues ]

NoServerProps ==
    [ groupedManualPagination   |-> Undefined,
      flatManualPagination      |-> Undefined,
      groupedAutoResetPageIndex |-> Undefined,
      flatAutoResetPageIndex    |-> Undefined ]

\* !x on a boolean.
Negate(x) == IF x = "true" THEN "false" ELSE "true"

\* An autoResetPageIndex that is on unless the caller says otherwise.
AutoResetAlwaysOn(p, manualPagination) ==
    Coalesce(p.groupedAutoResetPageIndex,
             Coalesce(p.flatAutoResetPageIndex, "true"))

\* props.server?.autoResetPageIndex ?? props.autoResetPageIndex ??
\*   !(props.server?.manualPagination ?? props.manualPagination ?? false)
\* The third operand is the expression of the manualPagination field again.
AutoReset(p, manualPagination) ==
    Coalesce(p.groupedAutoResetPageIndex,
             Coalesce(p.flatAutoResetPageIndex, Negate(manualPagination)))

\* const server: TableServer = { manualPagination: ..., autoResetPageIndex:
\* ... }, handed to useReactTable as manualPagination and
\* autoResetPageIndex.
ServerOf(p) ==
    LET manualPagination ==
          Coalesce(p.groupedManualPagination,
                   Coalesce(p.flatManualPagination, "false"))
    IN  [ manualPagination   |-> manualPagination,
          autoResetPageIndex |-> AutoReset(p, manualPagination) ]

\* src/src/TableAdapter.tsx: const manualPagination = props.manualPagination
\* ?? false; const autoResetPageIndex = props.autoResetPageIndex ??
\* !manualPagination.  The component has the flat props only.
DirectServerOf(p) ==
    LET manualPagination == Coalesce(p.flatManualPagination, "false")
        flat == [ p EXCEPT !.groupedAutoResetPageIndex = Undefined ]
    IN  [ manualPagination   |-> manualPagination,
          autoResetPageIndex |-> AutoReset(flat, manualPagination) ]

NoServer == [ manualPagination |-> Undefined, autoResetPageIndex |-> Undefined ]

\* The two components' options for props p.
ServerPass(p) == [ grouped |-> ServerOf(p), direct |-> DirectServerOf(p) ]

OptionIdle ==
    /\ sprops = NoServerProps
    /\ server = [ grouped |-> NoServer, direct |-> NoServer ]

----------------------------------------------------------------------------
(* useTableExport and useTableForm, src/src/hooks.ts:397-599: idle values. *)

\* At most this many rows in the data handed to useTableExport.
MaxRows == 3

\* The data of a table with n rows.
RowsUpTo(n) == [ i \in 1 .. n |-> [ id |-> i ] ]

\* TableExportOptions, as far as the selection is concerned:
\* exportSelection is boolean | undefined.
ExportOptionsSet == [ exportSelection : FlagValues ]

\* The customOptions of a call: none, or an object with exportSelection.
CustomOptionsSet ==
    { NoRecord } \cup { [ exportSelection |-> v ] : v \in JsBooleans }

\* data.filter((_, index) => selectedRows[index]), from the row at position
\* i on: the rows whose index (from 0) is a key of selectedRows holding true.
RECURSIVE FilterSelected(_, _, _)
FilterSelected(data, selectedRows, i) ==
    IF i > Len(data)
    THEN << >>
    ELSE (IF (i - 1) \in selectedRows THEN << data[i] >> ELSE << >>)
           \o FilterSelected(data, selectedRows, i + 1)

\* exportToCSV(data, columns, options), up to dataToExport: exportSelection
\* defaults to false and selectedRows to {} when options does not hold them;
\* selectedRows is the set of the indices that hold true.
exportToCSV(data, options) ==
    LET exportSelection ==
          IF "exportSelection" \in DOMAIN options
             /\ options.exportSelection # Undefined
          THEN options.exportSelection ELSE "false"
        selectedRows ==
          IF "selectedRows" \in DOMAIN options
          THEN options.selectedRows ELSE {}
    IN  IF exportSelection = "true"
        THEN FilterSelected(data, selectedRows, 1)
        ELSE data

\* exportToCSVFile of useTableExport: mergedOptions = { ...options,
\* ...customOptions }, and the options object handed to exportToCSV holds
\* filename, includeHiddenColumns, exportSelection and customFormatter.
exportToCSVFile(data, options, customOptions) ==
    LET mergedOptions == ObjectAssign(options, customOptions)
    IN  [ called |-> TRUE,
          exportSelection |-> mergedOptions.exportSelection,
          rows |-> exportToCSV(data,
                     [ exportSelection |-> mergedOptions.exportSelection ]) ]

NoExport == [ called |-> FALSE, exportSelection |-> Undefined, rows |-> << >> ]

ExportIdle ==
    /\ exportData = << >>
    /\ rowSelection = {}
    /\ exportOptions = [ exportSelection |-> Undefined ]
    /\ exported = NoExport

\* At most this many handler calls of the form between two render passes.
MaxFormQueue == 2

\* The row indices and the column ids of the form, and what a cell can be
\* given.
FormRows == { 0 }

FormColumns == { "age", "note" }

CellValues == { "ok", "bad", "worse", "blank" }

\* The initialData as the caller supplied it.
OriginalRows == [ r \in FormRows |-> [ c \in FormColumns |-> "ok" ] ]

\* validationRules: a rule for "age" and none for "note".  The rule returns
\* string | null: a message for "bad", another one for "worse", the empty
\* string for "blank" and null otherwise.
RuledColumns == { "age" }

Rule(c, v) ==
    CASE v = "bad"   -> "invalid"
      [] v = "worse" -> "too low"
      [] v = "blank" -> ""
      [] OTHER       -> Null

\* What the callers of the model write into a cell of column c.
ValuesOf(c) == IF c \in RuledColumns THEN CellValues ELSE { "ok", "bad" }

\* useState({}): no row has an error.
NoErrors == << >>

\* The updater handed to setValidationErrors: the row's record gets the
\* column when the error is truthy (if (error)) and loses it otherwise, and
\* the row is deleted when its record is empty.
SetError(prev, rowIndex, columnId, error) ==
    LET rowErrors == IF rowIndex \in DOMAIN prev THEN prev[rowIndex] ELSE << >>
        newRowErrors == IF error \notin { Null, "" }
                        THEN Put(rowErrors, columnId, error)
                        ELSE Drop(rowErrors, columnId)
    IN  IF DOMAIN newRowErrors # {}
        THEN Put(prev, rowIndex, newRowErrors)
        ELSE Drop(prev, rowIndex)

InitialFormState ==
    [ formData |-> OriginalRows, validationErrors |-> NoErrors,
      isDirty |-> FALSE ]

\* The rows of the initialData array the caller holds, as they read in state
\* st: useState(initialData) makes them the rows of formData, every
\* [...prevData] copies the array and keeps the row objects, and
\* setFormData(initialData) puts the same objects back, so they are the row
\* objects of formData in every pass.
InitialDataRows(st) == st.formData

\* The setter calls of one call of handleCellChange: the formData updater
\* (applied: React has run it already, in the call), setIsDirty(true), and
\* the validationErrors updater with the error the rule returned in the
\* call, when the column has a rule.
EditEntry(rowIndex, columnId, value, applied) ==
    [ kind |-> "edit", row |-> rowIndex, col |-> columnId, value |-> value,
      applied |-> applied,
      error |-> IF columnId \in RuledColumns THEN Rule(columnId, value) ELSE Null ]

\* setIsDirty(false) of a handleSubmit that went through.
SubmitEntry ==
    [ kind |-> "submit", row |-> 0, col |-> "", value |-> "",
      applied |-> FALSE, error |-> Null ]

\* setFormData(initialData), setValidationErrors({}), setIsDirty(false).
ResetEntry ==
    [ kind |-> "reset", row |-> 0, col |-> "", value |-> "",
      applied |-> FALSE, error |-> Null ]

\* What React makes of the state when it runs the setter calls of entry e.
\* The formData updater copies the array and assigns into the row object
\* itself (newData[rowIndex] is the object of prevData and of initialData),
\* so setFormData(initialData) hands back those same row objects: the cells
\* read what they read before.
ApplyEntry(st, e) ==
    CASE e.kind = "edit" ->
           [ formData |-> IF e.applied THEN st.formData
                          ELSE [ st.formData EXCEPT ![e.row][e.col] = e.value ],
             validationErrors |->
               IF e.col \in RuledColumns
               THEN SetError(st.validationErrors, e.row, e.col, e.error)
               ELSE st.validationErrors,
             isDirty |-> TRUE ]
      [] e.kind = "submit" -> [ st EXCEPT !.isDirty = FALSE ]
      [] e.kind = "reset" ->
           [ formData |-> st.formData, validationErrors |-> NoErrors,
             isDirty |-> FALSE ]

\* The state after React has run the queued setter calls in order.
RECURSIVE ApplyQueue(_, _)
ApplyQueue(st, q) ==
    IF q = << >> THEN st ELSE ApplyQueue(ApplyEntry(st, Head(q)), Tail(q))

\* A handleSubmit that does not look at validationErrors.
handleSubmitUnchecked(st, onSubmit) ==
    [ returned |-> TRUE,
      onSubmit |-> IF onSubmit THEN << st.formData >> ELSE << >>,
      queued   |-> << SubmitEntry >> ]

\* handleSubmit of the pass that returned st:
\* if (Object.keys(validationErrors).length > 0) return false;
\* if (onSubmit) onSubmit(formData); setIsDirty(false); return true;
handleSubmit(st, onSubmit) ==
    IF DOMAIN st.validationErrors # {}
    THEN [ returned |-> FALSE, onSubmit |-> << >>, queued |-> << >> ]
    ELSE [ returned |-> TRUE,
           onSubmit |-> IF onSubmit THEN << st.formData >> ELSE << >>,
           queued   |-> << SubmitEntry >> ]

NoSubmit == [ called |-> FALSE, returned |-> FALSE, onSubmit |-> << >> ]

FormIdle ==
    /\ formIn = [ onSubmit |-> FALSE ]
    /\ formState = InitialFormState
    /\ formQueue = << >>
    /\ lastSubmit = NoSubmit

----------------------------------------------------------------------------
(* The component's rows and error: values.                                 *)

\* The rows of the caller's data prop.
CallerRows == << [ id |-> 99 ] >>

\* The caller's error prop: null (the empty sequence) or an Error.
PropErrors == { << >>, << [ isError |-> TRUE, message |-> "denied" ] >> }

GridPropsSet ==
    [ data        : { CallerRows },
      error       : PropErrors,
      renderError : BOOLEAN,
      formMode    : BOOLEAN ]

\* The caller changes the error prop and nothing else.
NextGridProps(p) ==
    { n \in GridPropsSet :
        /\ n.data = p.data
        /\ n.renderError = p.renderError
        /\ n.formMode = p.formMode }

\* The server object of the component: built in every pass, hence never the
\* same object twice.
GridServerOptions ==
    { o \in ServerOptionsSet : ~o.stable /\ ~o.onFetchError }

\* server.fetchData && serverData.length > 0 ? serverData
\* : initialMemoizedData, the rows handed to useTableForm.
SourceRows(o, fs, p) ==
    IF o.fetchData # Undefined /\ Len(fs.data) > 0 THEN fs.data ELSE p.data

\* dataToUse of the data effect: formData in form mode, the fetched rows
\* when a fetch function is configured and serverData is not empty, the
\* caller's rows otherwise.
DataToUse(o, fs, p, formData) ==
    IF p.formMode
    THEN formData
    ELSE IF o.fetchData # Undefined /\ Len(fs.data) > 0
         THEN fs.data
         ELSE p.data

\* pageCount: serverPageCount > 0 ? serverPageCount : undefined
PageCountOption(fs) == IF fs.pageCount > 0 THEN fs.pageCount ELSE Undefined

\* The component's error after the two error effects of a pass that had
\* props old before and has props p now, with error and fetchError as the
\* pass read them: if (propError) setError(propError), which runs when
\* propError has changed, then if (fetchError && !error)
\* setError(fetchError).  No effect calls setError(null).
ErrorAfterEffects(old, p, fetchError, error) ==
    IF fetchError # << >> /\ error = << >>
    THEN fetchError
    ELSE IF p.error # old.error /\ p.error # << >>
         THEN p.error
         ELSE error

\* if (error && renderError) return renderError(error); the table otherwise.
View(p, error) ==
    IF error # << >> /\ p.renderError THEN "renderError" ELSE "table"

NoGridProps ==
    [ data |-> << >>, error |-> << >>, renderError |-> FALSE,
      formMode |-> FALSE ]

NoGrid ==
    [ error |-> << >>, tableData |-> << >>, data |-> << >>,
      pageCount |-> Undefined, formData |-> << >>, view |-> "table",
      settleSeen |-> 0 ]

\* No component of this kind is mounted.
GridIdle ==
    /\ gprops = NoGridProps
    /\ grid = NoGrid

AuxIdle == ConfigIdle /\ OptionIdle /\ ExportIdle /\ FormIdle /\ GridIdle

----------------------------------------------------------------------------
(* The resolver as a state machine: one call per render pass.              *)

InitFlags ==
    /\ props = EmptyProps
    /\ features = NoRecord
    /\ dirtied = FALSE
    /\ tprops = EmptyTableProps
    /\ store = [ s \in Slices |-> InitialValue(EmptyTableProps, s) ]
    /\ pending = [ s \in Slices |-> << >> ]
    /\ current = store
    /\ handlers = [ s \in Slices |-> HandlerOf(EmptyTableProps, store, s) ]
    /\ lastCall = [ slice |-> "none", updater |-> [ kind |-> "none" ],
                     threw |-> FALSE, callback |-> << >>, setter |-> << >> ]
    /\ calls = << >>
    /\ crashed = FALSE
    /\ ServerIdle
    /\ AuxIdle

\* extractFeatureFlags has returned a record.
Resolved == DOMAIN features # {}

\* A render pass with props p: const features = extractFeatureFlags(props).
\* The function writes to no object but the one it returns.
ExtractCall(p) ==
    /\ props' = p
    /\ features' = extractFeatureFlags(p)
    /\ dirtied' = (dirtied \/ (Resolved /\ features # DefaultFeatures))
    /\ UNCHANGED hookVars
    /\ UNCHANGED serverVars
    /\ UNCHANGED auxVars

NextFlags == \E p \in NextProps(props) : ExtractCall(p)

SpecFlags == InitFlags /\ [][NextFlags]_vars

----------------------------------------------------------------------------
(* The hook as a state machine: render passes and handler calls.           *)

NoCall ==
    [ slice |-> "none", updater |-> [ kind |-> "none" ],
      threw |-> FALSE, callback |-> << >>, setter |-> << >> ]

NoPending == [ s \in Slices |-> << >> ]

\* The first pass with props p: every useState is seeded with the initial
\* value of its slice.
Mount(p) ==
    /\ tprops = p
    /\ store = [ s \in Slices |-> InitialValue(p, s) ]
    /\ pending = NoPending
    /\ current = [ s \in Slices |-> CurrentValue(p, store, s) ]
    /\ handlers = [ s \in Slices |-> HandlerOf(p, store, s) ]
    /\ lastCall = NoCall
    /\ calls = << >>
    /\ crashed = FALSE

\* The slices in use: something is supplied for them, or their useState
\* value has left the default, or a setter call is queued.
BusySlices(p, st, q) ==
    SuppliedSlices(p) \cup { s \in Slices : st[s] # DefaultValue(s) \/ q[s] # << >> }

Init ==
    /\ props = EmptyProps
    /\ features = NoRecord
    /\ dirtied = FALSE
    /\ \E s \in Slices : \E p \in FirstTableProps(s) : Mount(p)
    /\ ServerIdle
    /\ AuxIdle

\* A later pass with props p.  React applies the queued setter calls, the
\* hook reads the callbacks and values of p, classifies every slice and
\* builds the current values and the handlers from them.
Render(p) ==
    LET st == [ s \in Slices |-> UseState(store[s], pending[s], InitialValue(p, s)) ]
    IN  /\ tprops' = p
        /\ store' = st
        /\ pending' = NoPending
        /\ current' = [ s \in Slices |-> CurrentValue(p, st, s) ]
        /\ handlers' = [ s \in Slices |-> HandlerOf(p, st, s) ]
        /\ lastCall' = NoCall
        /\ calls' = << >>
        /\ UNCHANGED crashed
        /\ UNCHANGED flagVars
        /\ UNCHANGED auxVars
        /\ UNCHANGED serverVars

\* The grid engine calls handle<Slice>Change(u), the handler of slice s of
\* the last pass.
Dispatch(s, u) ==
    LET r == HandlerCall(handlers[s], s, u)
        t == handlers[s].internalSetter
    IN  /\ Len(pending[t]) + Len(r.setter) <= MaxPending
        /\ (u.fn = "next" /\ s = "pagination")
              => handlers[s].current.pageIndex < MaxPage
        /\ pending' = [ pending EXCEPT ![t] = @ \o r.setter ]
        /\ lastCall' = [ slice |-> s, updater |-> u, threw |-> r.threw,
                         callback |-> r.callback, setter |-> r.setter ]
        /\ calls' = IF r.setter = << >> THEN calls
                     ELSE Append(calls, [ slice |-> s, updater |-> u ])
        /\ UNCHANGED <<tprops, store, current, handlers, crashed>>
        /\ UNCHANGED flagVars
        /\ UNCHANGED auxVars
        /\ UNCHANGED serverVars

\* One slice is exercised at a time: a pass changes a prop of slice s, and a
\* handler of slice s is called, only while no other slice is in use.
OnlyBusy(s) == BusySlices(tprops, store, pending) \subseteq {s}

Next ==
    \/ \E s \in Slices : OnlyBusy(s) /\ \E p \in NextTableProps(tprops, s) : Render(p)
    \/ \E s \in Slices : OnlyBusy(s) /\ \E u \in Updaters(s) : Dispatch(s, u)

Spec == Init /\ [][Next]_vars

----------------------------------------------------------------------------
(* The component of src/src/TableAdapter.tsx, which manages the ten slices *)
(* itself ("direct state management") and reads the flat props only.       *)
(* Its useState setters are handed functions of the previous state, which  *)
(* React queues and runs in the next render pass: here pending holds, per  *)
(* slice, the updaters of the queued functions.                            *)

\* const sorting = props.sorting ?? []; and so on (lines 84-94), with the
\* || [] and || { left: [], right: [] } of lines 166-170 and 207-211: the
\* flat value, else the default.
DirectValue(p, s) ==
    IF s = "pagination"
    THEN [ pageIndex |->
             IF "pageIndex" \in DOMAIN p.flat THEN p.flat["pageIndex"]
             ELSE DefaultValue(s).pageIndex,
           pageSize |->
             IF "pageSize" \in DOMAIN p.flat THEN p.flat["pageSize"]
             ELSE DefaultValue(s).pageSize ]
    ELSE IF s \in DOMAIN p.flat THEN p.flat[s]
    ELSE DefaultValue(s)

\* const currentSorting = isControlled.sorting ? sorting : sortingState
DirectCurrentValue(p, st, s) ==
    IF IsControlledFlat(p, s) THEN DirectValue(p, s) ELSE st[s]

\* The closure of handle<Slice>Change built by a pass: isControlled.<slice>,
\* on<Slice>Change, set<Slice>State and current<Slice>.
DirectHandlerOf(p, st, s) ==
    [ isControlled    |-> IsControlledFlat(p, s),
      externalHandler |-> p.on[s],
      internalSetter  |-> s,
      current         |-> DirectCurrentValue(p, st, s) ]

\* handle<Slice>Change(u).  Controlled: the updater is resolved against
\* current<Slice> and the result handed to on<Slice>Change.  Uncontrolled:
\* set<Slice>State is handed (prevState) => typeof updater === "function" ?
\* updater(prevState) : updater; React queues it (where it runs it at once,
\* it suppresses what it throws and runs it again in the render pass), so
\* the call returns whatever the updater is.
DirectHandlerCall(h, s, u) ==
    IF h.isControlled
    THEN IF u.kind = "function" /\ u.fn = "throws"
         THEN Thrown
         ELSE [ threw    |-> FALSE,
                callback |-> << [ fn  |-> h.externalHandler,
                                  arg |-> IF u.kind = "function"
                                          THEN ApplyFn(u.fn, s, h.current)
                                          ELSE u.value ] >>,
                setter   |-> << >> ]
    ELSE [ threw |-> FALSE, callback |-> << >>, setter |-> << u >> ]

\* One of the queued functions throws when React runs it.
QueueThrows(q) ==
    \E i \in DOMAIN q : q[i].kind = "function" /\ q[i].fn = "throws"

\* The useState value after React has run the queued functions q[1..n] one
\* after the other, starting from v.
RECURSIVE DirectCommit(_, _, _, _)
DirectCommit(v, q, n, s) ==
    IF n = 0 THEN v
    ELSE LET w == DirectCommit(v, q, n - 1, s)
         IN  IF q[n].kind = "function" THEN ApplyFn(q[n].fn, s, w) ELSE q[n].value

\* The props within the component's surface: no grouped state and no
\* grouped callbacks.
FirstDirectProps(s) ==
    { p \in FirstTableProps(s) :
        p.onStateChange = EmptyTableProps.onStateChange /\ p.state = << >> }

NextDirectProps(p, s) ==
    { q \in NextTableProps(p, s) :
        q.onStateChange = EmptyTableProps.onStateChange /\ q.state = << >> }

\* The first pass with props p.
MountDirect(p) ==
    /\ tprops = p
    /\ store = [ s \in Slices |-> DirectValue(p, s) ]
    /\ pending = NoPending
    /\ current = [ s \in Slices |-> DirectCurrentValue(p, store, s) ]
    /\ handlers = [ s \in Slices |-> DirectHandlerOf(p, store, s) ]
    /\ lastCall = NoCall
    /\ calls = << >>
    /\ crashed = FALSE

InitDirect ==
    /\ props = EmptyProps
    /\ features = NoRecord
    /\ dirtied = FALSE
    /\ \E s \in Slices : \E p \in FirstDirectProps(s) : MountDirect(p)
    /\ ServerIdle
    /\ AuxIdle

\* A later pass with props p.  React runs the queued functions; when one of
\* them throws, the pass throws, and React, which finds no error boundary in
\* the component, unmounts it.
RenderDirect(p) ==
    /\ ~crashed
    /\ IF \E s \in Slices : QueueThrows(pending[s])
       THEN /\ crashed' = TRUE
            /\ lastCall' = NoCall
            /\ UNCHANGED <<tprops, store, pending, current, handlers, calls>>
       ELSE LET st == [ s \in Slices |->
                          DirectCommit(store[s], pending[s], Len(pending[s]), s) ]
            IN  /\ tprops' = p
                /\ store' = st
                /\ pending' = NoPending
                /\ current' = [ s \in Slices |-> DirectCurrentValue(p, st, s) ]
                /\ handlers' = [ s \in Slices |-> DirectHandlerOf(p, st, s) ]
                /\ lastCall' = NoCall
                /\ calls' = << >>
                /\ UNCHANGED crashed
    /\ UNCHANGED flagVars
    /\ UNCHANGED auxVars
    /\ UNCHANGED serverVars

\* The grid engine calls handle<Slice>Change(u).
DispatchDirect(s, u) ==
    LET h == handlers[s]
        r == DirectHandlerCall(h, s, u)
        t == h.internalSetter
        prev == IF h.isControlled \/ QueueThrows(pending[s]) THEN h.current
                ELSE DirectCommit(store[s], pending[s], Len(pending[s]), s)
    IN  /\ ~crashed
        /\ Len(pending[t]) + Len(r.setter) <= MaxPending
        /\ (u.fn = "next" /\ s = "pagination") => prev.pageIndex < MaxPage
        /\ pending' = [ pending EXCEPT ![t] = @ \o r.setter ]
        /\ lastCall' = [ slice |-> s, updater |-> u, threw |-> r.threw,
                         callback |-> r.callback, setter |-> r.setter ]
        /\ calls' = IF r.setter = << >> THEN calls
                     ELSE Append(calls, [ slice |-> s, updater |-> u ])
        /\ UNCHANGED <<tprops, store, current, handlers, crashed>>
        /\ UNCHANGED flagVars
        /\ UNCHANGED auxVars
        /\ UNCHANGED serverVars

\* One slice is exercised at a time, as for the hook.
OnlyBusyDirect(s) ==
    SuppliedSlices(tprops) \cup { t \in Slices : store[t] # DefaultValue(t) \/ pending[t] # << >> }
      \subseteq {s}

NextDirect ==
    \/ \E s \in Slices : OnlyBusyDirect(s) /\ \E p \in NextDirectProps(tprops, s) : RenderDirect(p)
    \/ \E s \in Slices : OnlyBusyDirect(s) /\ \E u \in Updaters(s) : DispatchDirect(s, u)

SpecDirect == InitDirect /\ [][NextDirect]_vars

----------------------------------------------------------------------------
(* useServerSideData as a state machine: passes, fetches and settlements.  *)

\* A gate that looks at the fetch function only.
FetchGateConfigured(o, force) == o.fetchData # Undefined

\* if (!serverOptions?.fetchData) return; if (manualPagination ||
\* manualSorting || manualFiltering || force) { ... }
FetchGate(o, force) ==
    /\ o.fetchData # Undefined
    /\ o.manualPagination \/ o.manualSorting \/ o.manualFiltering \/ force

\* fetchData(force), up to its await: setIsLoading(true), setError(null)
\* and the call of serverOptions.fetchData with the table state q.
FetchDataCall(force, q) ==
    IF FetchGate(serverOptions, force)
    THEN /\ fetchState' = [ fetchState EXCEPT !.isLoading = TRUE, !.error = << >> ]
         /\ inflight' = inflight \cup { [ id |-> started + 1, query |-> q,
                                          forced |-> force ] }
         /\ started' = started + 1
    ELSE UNCHANGED <<fetchState, inflight, started>>

\* The first pass with options o and its effect, which calls fetchData().
MountServer(o) ==
    /\ serverOptions = o
    /\ query = 0
    /\ lastSettled = NoSettle
    /\ IF FetchGate(o, FALSE)
       THEN /\ fetchState = [ InitialFetchState EXCEPT !.isLoading = TRUE ]
            /\ inflight = { [ id |-> 1, query |-> 0, forced |-> FALSE ] }
            /\ started = 1
            /\ renderDue = TRUE
       ELSE /\ fetchState = InitialFetchState
            /\ inflight = {}
            /\ started = 0
            /\ renderDue = FALSE

InitServer ==
    /\ props = EmptyProps
    /\ features = NoRecord
    /\ dirtied = FALSE
    /\ Mount(EmptyTableProps)
    /\ \E o \in ServerOptionsSet : MountServer(o)
    /\ AuxIdle

\* A pass in which the table state has changed to q: one of the values the
\* effect depends on differs, and the effect calls fetchData().
TablePass(q) ==
    /\ q # query
    /\ started < MaxFetches
    /\ query' = q
    /\ FetchDataCall(FALSE, q)
    /\ renderDue' = (fetchState' # fetchState)
    /\ UNCHANGED <<serverOptions, lastSettled>>
    /\ UNCHANGED <<flagVars, hookVars>>
    /\ UNCHANGED auxVars

\* The pass React makes after a useState value of the hook has changed.  The
\* table state is the same; the effect runs again when fetchData is a new
\* function, which it is when serverOptions is a new object.
HookPass ==
    /\ renderDue
    /\ serverOptions.stable \/ started < MaxFetches
    /\ IF serverOptions.stable
       THEN /\ renderDue' = FALSE
            /\ UNCHANGED <<fetchState, inflight, started>>
       ELSE /\ FetchDataCall(FALSE, query)
            /\ renderDue' = (fetchState' # fetchState)
    /\ UNCHANGED <<serverOptions, query, lastSettled>>
    /\ UNCHANGED <<flagVars, hookVars>>
    /\ UNCHANGED auxVars

\* The caller calls the fetchData the hook returns, with force = true.
ForceFetch ==
    /\ started < MaxFetches
    /\ FetchDataCall(TRUE, query)
    /\ renderDue' = (renderDue \/ fetchState' # fetchState)
    /\ UNCHANGED <<serverOptions, query, lastSettled>>
    /\ UNCHANGED <<flagVars, hookVars>>
    /\ UNCHANGED auxVars

\* A completion that is applied only when no later fetch has been started.
AppliesLatestOnly(f) == f.id = started

\* Whether the result of fetch f is written when it arrives: the code after
\* the await is unconditional.
Applies(f) == TRUE

\* A success path that hands the result to the pagination handler.
FeedSlicesByDispatch(res) ==
    /\ lastCall' = [ lastCall EXCEPT !.slice = "pagination" ]
    /\ UNCHANGED <<tprops, store, pending, current, handlers, calls, crashed>>

\* What the success path does to the slices: the code after the await calls
\* setData, setPageCount and setTotalRowCount of the hook and nothing else;
\* no handle<Slice>Change is in its reach.
FeedSlices(res) == UNCHANGED hookVars

\* The promise of fetch f resolves with res: setData, setPageCount,
\* setTotalRowCount when the result has one, and setIsLoading(false) in the
\* finally block.
Resolve(f, res) ==
    /\ f \in inflight
    /\ fetchState' =
         IF Applies(f)
         THEN [ fetchState EXCEPT
                  !.data = res.data,
                  !.pageCount = res.pageCount,
                  !.totalRowCount = IF "totalRowCount" \in DOMAIN res
                                    THEN res.totalRowCount ELSE @,
                  !.isLoading = FALSE ]
         ELSE [ fetchState EXCEPT !.isLoading = FALSE ]
    /\ inflight' = inflight \ {f}
    /\ lastSettled' = [ id |-> f.id, query |-> f.query, ok |-> TRUE,
                        result |-> res, rejection |-> NoRejection,
                        error |-> << >>, notified |-> << >>,
                        promise |-> "resolved" ]
    /\ renderDue' = TRUE
    /\ FeedSlices(res)
    /\ UNCHANGED <<serverOptions, query, started>>
    /\ UNCHANGED flagVars
    /\ UNCHANGED auxVars

\* The promise of fetch f rejects with err: the catch block sets error and
\* calls onError and serverOptions.onFetchError when they are supplied, the
\* finally block calls setIsLoading(false).
Reject(f, err) ==
    /\ f \in inflight
    /\ fetchState' = [ fetchState EXCEPT !.error = << WrapError(err) >>,
                                          !.isLoading = FALSE ]
    /\ inflight' = inflight \ {f}
    /\ lastSettled' =
         [ id |-> f.id, query |-> f.query, ok |-> FALSE, result |-> NoResult,
           rejection |-> err,
           error |-> << WrapError(err) >>,
           notified |-> (IF serverOptions.onError THEN << "onError" >> ELSE << >>)
                          \o (IF serverOptions.onFetchError
                              THEN << "onFetchError" >> ELSE << >>),
           promise |-> "resolved" ]
    /\ renderDue' = TRUE
    /\ UNCHANGED <<serverOptions, query, started>>
    /\ UNCHANGED <<flagVars, hookVars>>
    /\ UNCHANGED auxVars

NextServer ==
    \/ \E q \in Queries : TablePass(q)
    \/ HookPass
    \/ ForceFetch
    \/ \E f \in inflight : \E res \in Responses(f.query) : Resolve(f, res)
    \/ \E f \in inflight : \E err \in Rejections : Reject(f, err)

SpecServer == InitServer /\ [][NextServer]_vars

----------------------------------------------------------------------------
(* TableConfigProvider and its consumers as a state machine.               *)

\* The tree is mounted without a provider, or with one that is given
\* initialClassNames i (useState takes the merged value in this pass only).
MountProvider ==
    \/ provider = NoProvider
    \/ \E i \in InitialPartials :
         provider = [ present |-> TRUE, initialClassNames |-> i,
                      defaultClassNames |-> InitialMergedClassNames(i) ]

InitConfig ==
    /\ props = EmptyProps
    /\ features = NoRecord
    /\ dirtied = FALSE
    /\ Mount(EmptyTableProps)
    /\ ServerIdle
    /\ MountProvider
    /\ lastSet = NoClassNames
    /\ adapter = NoAdapter
    /\ configResult = NoConfigResult
    /\ OptionIdle /\ ExportIdle /\ FormIdle /\ GridIdle

\* A consumer inside the provider calls setDefaultClassNames(c): React runs
\* the updater, the context value changes, and the TableAdapter under the
\* provider renders again with the classNames it has.
SetDefaultClassNames(c) ==
    /\ provider.present
    /\ provider' = [ provider EXCEPT
                       !.defaultClassNames = MergeDefaults(@, c) ]
    /\ lastSet' = [ supplied |-> TRUE, value |-> c ]
    /\ adapter' = IF adapter.rendered
                  THEN AdapterPass(provider', adapter.classNames)
                  ELSE adapter
    /\ UNCHANGED configResult
    /\ UNCHANGED <<flagVars, hookVars, serverVars>>
    /\ UNCHANGED <<optionVars, exportVars, formVars, gridVars>>

\* The TableAdapter is rendered with classNames c.
RenderAdapter(c) ==
    /\ adapter' = AdapterPass(provider, c)
    /\ adapter' # adapter
    /\ UNCHANGED <<provider, lastSet, configResult>>
    /\ UNCHANGED <<flagVars, hookVars, serverVars>>
    /\ UNCHANGED <<optionVars, exportVars, formVars, gridVars>>

\* A component calls useTableConfig().
CallUseTableConfig ==
    /\ LET r == useTableConfig(provider)
       IN  configResult' =
             [ called |-> TRUE, threw |-> r.threw, message |-> r.message,
               defaultClassNames |-> r.defaultClassNames,
               setDefaultClassNames |-> r.setDefaultClassNames ]
    /\ configResult' # configResult
    /\ UNCHANGED <<provider, lastSet, adapter>>
    /\ UNCHANGED <<flagVars, hookVars, serverVars>>
    /\ UNCHANGED <<optionVars, exportVars, formVars, gridVars>>

NextConfig ==
    \/ \E c \in Partials : SetDefaultClassNames(c)
    \/ \E c \in ComponentClassNames : RenderAdapter(c)
    \/ CallUseTableConfig

SpecConfig == InitConfig /\ [][NextConfig]_vars

----------------------------------------------------------------------------
(* The server options as a state machine: one resolution per render pass.  *)

\* The props of the next pass: one of the four props is given another value.
NextServerProps(p) ==
    { q \in ServerProps :
        Cardinality({ f \in DOMAIN p : q[f] # p[f] }) = 1 }

InitOptions ==
    /\ props = EmptyProps
    /\ features = NoRecord
    /\ dirtied = FALSE
    /\ Mount(EmptyTableProps)
    /\ ServerIdle
    /\ ConfigIdle /\ ExportIdle /\ FormIdle /\ GridIdle
    /\ sprops = NoServerProps
    /\ server = ServerPass(sprops)

\* A render pass with props p.
OptionsPass(p) ==
    /\ sprops' = p
    /\ server' = ServerPass(p)
    /\ UNCHANGED <<flagVars, hookVars, serverVars>>
    /\ UNCHANGED <<configVars, exportVars, formVars, gridVars>>

NextOptions == \E p \in NextServerProps(sprops) : OptionsPass(p)

SpecOptions == InitOptions /\ [][NextOptions]_vars

----------------------------------------------------------------------------
(* useTableExport as a state machine: selections and CSV exports.          *)

InitExport ==
    /\ props = EmptyProps
    /\ features = NoRecord
    /\ dirtied = FALSE
    /\ Mount(EmptyTableProps)
    /\ ServerIdle
    /\ ConfigIdle /\ OptionIdle /\ FormIdle /\ GridIdle
    /\ \E n \in 0 .. MaxRows : exportData = RowsUpTo(n)
    /\ rowSelection = {}
    /\ exportOptions \in ExportOptionsSet
    /\ exported = NoExport

\* The user selects or deselects the row of index i.
ToggleRow(i) ==
    /\ i < Len(exportData)
    /\ rowSelection' = IF i \in rowSelection
                       THEN rowSelection \ {i} ELSE rowSelection \cup {i}
    /\ UNCHANGED <<exportData, exportOptions, exported>>
    /\ UNCHANGED <<flagVars, hookVars, serverVars>>
    /\ UNCHANGED <<configVars, optionVars, formVars, gridVars>>

\* The export button, or a caller, calls the exportToCSV that useTableExport
\* returns, with customOptions c.
ExportCall(c) ==
    /\ exported' = exportToCSVFile(exportData, exportOptions, c)
    /\ exported' # exported
    /\ UNCHANGED <<exportData, rowSelection, exportOptions>>
    /\ UNCHANGED <<flagVars, hookVars, serverVars>>
    /\ UNCHANGED <<configVars, optionVars, formVars, gridVars>>

NextExport ==
    \/ \E i \in 0 .. MaxRows - 1 : ToggleRow(i)
    \/ \E c \in CustomOptionsSet : ExportCall(c)

SpecExport == InitExport /\ [][NextExport]_vars

----------------------------------------------------------------------------
(* useTableForm as a state machine: edits, submissions and render passes.  *)

InitForm ==
    /\ props = EmptyProps
    /\ features = NoRecord
    /\ dirtied = FALSE
    /\ Mount(EmptyTableProps)
    /\ ServerIdle
    /\ ConfigIdle /\ OptionIdle /\ ExportIdle /\ GridIdle
    /\ formIn \in [ onSubmit : BOOLEAN ]
    /\ formState = InitialFormState
    /\ formQueue = << >>
    /\ lastSubmit = NoSubmit

\* Whether the formData updater of a call is the first one queued since the
\* last pass: React may then run it in the call itself instead of in the
\* next pass.
FirstDataUpdate ==
    \A i \in DOMAIN formQueue : formQueue[i].kind = "submit"

\* handleCellChange(r, c, v).  The updater writes into the row object, so
\* when React runs it in the call the cell reads v from then on.
HandleCellChange(r, c, v) ==
    /\ Len(formQueue) < MaxFormQueue
    /\ \E applied \in IF FirstDataUpdate THEN BOOLEAN ELSE { FALSE } :
         /\ formQueue' = Append(formQueue, EditEntry(r, c, v, applied))
         /\ formState' =
              IF applied
              THEN [ formState EXCEPT !.formData[r][c] = v ]
              ELSE formState
    /\ UNCHANGED <<formIn, lastSubmit>>
    /\ UNCHANGED <<flagVars, hookVars, serverVars>>
    /\ UNCHANGED <<configVars, optionVars, exportVars, gridVars>>

\* handleSubmit() of the last pass.
HandleSubmit ==
    /\ Len(formQueue) < MaxFormQueue
    /\ LET r == handleSubmit(formState, formIn.onSubmit)
       IN  /\ lastSubmit' = [ called |-> TRUE, returned |-> r.returned,
                              onSubmit |-> r.onSubmit ]
           /\ formQueue' = formQueue \o r.queued
    /\ UNCHANGED <<formIn, formState>>
    /\ UNCHANGED <<flagVars, hookVars, serverVars>>
    /\ UNCHANGED <<configVars, optionVars, exportVars, gridVars>>

\* resetForm() of the last pass.
ResetForm ==
    /\ Len(formQueue) < MaxFormQueue
    /\ formQueue' = Append(formQueue, ResetEntry)
    /\ UNCHANGED <<formIn, formState, lastSubmit>>
    /\ UNCHANGED <<flagVars, hookVars, serverVars>>
    /\ UNCHANGED <<configVars, optionVars, exportVars, gridVars>>

\* The render pass React makes after setter calls: it runs them in order
\* and the handlers of the pass capture the result.
FormRender ==
    /\ formQueue # << >>
    /\ formState' = ApplyQueue(formState, formQueue)
    /\ formQueue' = << >>
    /\ UNCHANGED <<formIn, lastSubmit>>
    /\ UNCHANGED <<flagVars, hookVars, serverVars>>
    /\ UNCHANGED <<configVars, optionVars, exportVars, gridVars>>

\* The caller hands in a new initialData array (new row objects, holding
\* the original values): the effect on [initialData] calls
\* setFormData(initialData) and setIsDirty(false), and React renders again.
NewInitialData ==
    /\ formQueue = << >>
    /\ formState' = [ formState EXCEPT !.formData = OriginalRows,
                                        !.isDirty = FALSE ]
    /\ formState' # formState
    /\ UNCHANGED <<formIn, formQueue, lastSubmit>>
    /\ UNCHANGED <<flagVars, hookVars, serverVars>>
    /\ UNCHANGED <<configVars, optionVars, exportVars, gridVars>>

NextForm ==
    \/ \E r \in FormRows, c \in FormColumns : \E v \in ValuesOf(c) :
         HandleCellChange(r, c, v)
    \/ HandleSubmit
    \/ ResetForm
    \/ FormRender
    \/ NewInitialData

SpecForm == InitForm /\ [][NextForm]_vars

----------------------------------------------------------------------------
(* The component around useServerSideData: the rows it hands to the table  *)
(* and the error it shows.                                                 *)

\* The first pass with props p and its effects: useState(propError || null),
\* useState(initialMemoizedData), useTableForm(initialMemoizedData); no
\* fetch has settled, so every effect leaves these values as they are.
MountGrid(p) ==
    /\ gprops = p
    /\ grid = [ error |-> p.error, tableData |-> p.data, data |-> p.data,
                pageCount |-> Undefined, formData |-> p.data,
                view |-> View(p, p.error), settleSeen |-> 0 ]

InitGrid ==
    /\ props = EmptyProps
    /\ features = NoRecord
    /\ dirtied = FALSE
    /\ Mount(EmptyTableProps)
    /\ \E o \in GridServerOptions : MountServer(o)
    /\ \E p \in GridPropsSet : MountGrid(p)
    /\ ConfigIdle /\ OptionIdle /\ ExportIdle /\ FormIdle

\* A pass of the component with props p and table state q, made because a
\* useState value, the error prop or the table state has changed.  The pass
\* returns renderError(error) or the table from the state it reads.  Then
\* its effects run: the effect of useServerSideData calls fetchData(),
\* whose identity is new because server is a new object; the effect of
\* useTableForm takes the rows it was handed; the data effect calls
\* setTableData(dataToUse) and table.setOptions with data and pageCount;
\* the two error effects call setError.
GridPass(p, q) ==
    /\ renderDue \/ p # gprops \/ q # query
    /\ FetchGate(serverOptions, FALSE) => started < MaxFetches
    /\ query' = q
    /\ FetchDataCall(FALSE, q)
    /\ gprops' = p
    /\ grid' =
         [ error      |-> ErrorAfterEffects(gprops, p, fetchState.error,
                                            grid.error),
           tableData  |-> DataToUse(serverOptions, fetchState, p, grid.formData),
           data       |-> DataToUse(serverOptions, fetchState, p, grid.formData),
           pageCount  |-> PageCountOption(fetchState),
           formData   |-> SourceRows(serverOptions, fetchState, p),
           view       |-> View(p, grid.error),
           settleSeen |-> lastSettled.id ]
    /\ renderDue' = \/ fetchState' # fetchState
                    \/ grid'.error # grid.error
                    \/ grid'.tableData # grid.tableData
                    \/ grid'.formData # grid.formData
    /\ UNCHANGED <<serverOptions, lastSettled>>
    /\ UNCHANGED <<flagVars, hookVars>>
    /\ UNCHANGED <<configVars, optionVars, exportVars, formVars>>

NextGrid ==
    \/ \E p \in NextGridProps(gprops), q \in Queries : GridPass(p, q)
    \/ \E f \in inflight : \E res \in Responses(f.query) : Resolve(f, res)
    \/ \E f \in inflight : \E err \in Rejections : Reject(f, err)

SpecGrid == InitGrid /\ [][NextGrid]_vars

----------------------------------------------------------------------------
(* Properties of the resolver.                                             *)

\* The legacy props that assign field f (none for columnOrdering, formMode
\* and virtualization).
LegacyIndexOf(f) == { i \in DOMAIN LegacyAssignments : LegacyAssignments[i][2] = f }

\* No legacy prop for field f is supplied in the last pass.
LegacyUnset(f) ==
    \A i \in LegacyIndexOf(f) : props.legacy[LegacyAssignments[i][1]] = Undefined

\* Field f is an own key of the grouped object of the last pass.
GroupedHas(f) == props.hasFeatures /\ f \in DOMAIN props.features

\* C1: whenever a legacy enable* prop is not undefined, the resolved flag of
\* its feature equals the legacy value, whatever props.features holds.
C1_LegacyPrecedence ==
    Resolved =>
      \A i \in DOMAIN LegacyAssignments :
        LET name  == LegacyAssignments[i][1]
            field == LegacyAssignments[i][2]
        IN  props.legacy[name] # Undefined => features[field] = props.legacy[name]

\* C1's case: features.sorting = false with enableSorting = true resolves
\* sorting to true.
C1_Witness ==
    /\ Resolved
    /\ GroupedHas("sorting")
    /\ props.features["sorting"] = "false"
    /\ props.legacy["enableSorting"] = "true"
    /\ features["sorting"] = "true"

\* C2: a field the grouped object sets to a boolean, with no legacy prop
\* supplied for it, resolves to the grouped value, also where the default
\* differs.
C2_GroupedOverDefault ==
    Resolved =>
      \A f \in FeatureNames :
        (GroupedHas(f) /\ props.features[f] \in JsBooleans /\ LegacyUnset(f))
          => features[f] = props.features[f]

\* C2's case: features.rowSelection = true, no enableRowSelection: the flag
\* is true although the default is false.
C2_Witness ==
    /\ Resolved
    /\ GroupedHas("rowSelection")
    /\ props.features["rowSelection"] = "true"
    /\ props.legacy["enableRowSelection"] = Undefined
    /\ DefaultFeatures["rowSelection"] = "false"
    /\ features["rowSelection"] = "true"

\* The features whose built-in default is true; every other one is false.
TrueByDefault == {"pagination", "sorting", "multiSort", "sortingRemoval"}

\* C3: all fifteen features are present in the result, and a feature that
\* neither the grouped object nor a legacy prop supplies has its built-in
\* default.
C3_BuiltInDefaults ==
    Resolved =>
      /\ FeatureNames \subseteq DOMAIN features
      /\ \A f \in FeatureNames :
           (~GroupedHas(f) /\ LegacyUnset(f))
             => features[f] = (IF f \in TrueByDefault THEN "true" ELSE "false")

\* C3's case: a call with nothing supplied.
C3_Witness ==
    /\ Resolved
    /\ props = EmptyProps
    /\ features["pagination"] = "true"
    /\ features["virtualization"] = "false"

\* The value of the legacy prop of field f that is supplied.
LegacyValue(f) ==
    LET i == CHOOSE j \in LegacyIndexOf(f) :
               props.legacy[LegacyAssignments[j][1]] # Undefined
    IN  props.legacy[LegacyAssignments[i][1]]

\* C4: a field present in the grouped object with the value undefined
\* resolves to undefined when its legacy prop is undefined, and to the
\* legacy value when that is defined.
C4_KeyPresence ==
    Resolved =>
      \A f \in FeatureNames :
        (GroupedHas(f) /\ props.features[f] = Undefined)
          => features[f] = (IF LegacyUnset(f) THEN Undefined ELSE LegacyValue(f))

\* C4's case: features.pagination = undefined overwrites the default true.
C4_Witness ==
    /\ Resolved
    /\ GroupedHas("pagination")
    /\ props.features["pagination"] = Undefined
    /\ props.legacy["enablePagination"] = Undefined
    /\ features["pagination"] = Undefined

\* C5: a field of props.features that is not a known feature neither
\* appears in the resolved record nor changes it: the record is the one
\* resolved from the same props without that field.
C5_UnknownFieldsIgnored ==
    Resolved => features = extractFeatureFlags(WithoutFeature(props, UnknownKey))

----------------------------------------------------------------------------
(* Properties of the hook.                                                 *)

\* A change callback that is a function is supplied for slice s in the last
\* pass, in the grouped props.onStateChange or as a flat prop.
CallbackSupplied(s) ==
    tprops.onStateChange[s] \in Functions \/ tprops.on[s] \in Functions

\* A value is supplied for slice s in the last pass.
ValueSupplied(s) ==
    s \in DOMAIN tprops.state \/ FlatPropsOf(s) \cap DOMAIN tprops.flat # {}

\* C7: in every pass, each slice is controlled if and only if a non-null
\* change callback is supplied for it (grouped or flat); a supplied value
\* has no influence.  The component that reads the flat props only agrees
\* whenever no grouped callback is supplied.
C7_OwnershipClassification ==
    \A s \in Slices :
      /\ handlers[s].isControlled <=> CallbackSupplied(s)
      \* the component that reads flat props only, for props within its surface
      /\ tprops.onStateChange[s] = Undefined
           => (IsControlledFlat(tprops, s) <=> CallbackSupplied(s))

\* C7's cases: a slice with a value and no callback (null in one place) is
\* uncontrolled; a slice with a flat callback and no value is controlled.
C7_Witness ==
    \E s \in Slices :
      \/ /\ ValueSupplied(s)
         /\ tprops.onStateChange[s] = Null
         /\ tprops.on[s] = Undefined
         /\ ~handlers[s].isControlled
      \/ /\ ~ValueSupplied(s)
         /\ tprops.onStateChange[s] = Null
         /\ tprops.on[s] = FlatFn
         /\ handlers[s].isControlled

\* A handler of slice s has been called since the last pass and returned.
Called(s) == lastCall.slice = s /\ ~lastCall.threw

\* C8: when both the grouped and the flat callback are supplied for a
\* slice, a handler call invokes the flat (legacy) callback and not the
\* grouped one.
C8_LegacyCallbackPrecedence ==
    \A s \in Slices :
      (Called(s) /\ tprops.onStateChange[s] = GroupedFn /\ tprops.on[s] = FlatFn)
        => /\ Len(lastCall.callback) = 1
           /\ lastCall.callback[1].fn = FlatFn

\* The value of slice s resolved from p with the precedence of the feature
\* flags: the legacy value when supplied, else the grouped one, else the
\* default.
LegacyFirstValue(p, s) ==
    IF s = "pagination"
    THEN [ pageIndex |->
             IF "pageIndex" \in DOMAIN p.flat THEN p.flat["pageIndex"]
             ELSE IF s \in DOMAIN p.state THEN p.state[s].pageIndex
             ELSE DefaultValue(s).pageIndex,
           pageSize |->
             IF "pageSize" \in DOMAIN p.flat THEN p.flat["pageSize"]
             ELSE IF s \in DOMAIN p.state THEN p.state[s].pageSize
             ELSE DefaultValue(s).pageSize ]
    ELSE IF s \in DOMAIN p.flat THEN p.flat[s]
    ELSE IF s \in DOMAIN p.state THEN p.state[s]
    ELSE DefaultValue(s)

\* C9: the value of a slice is resolved with the precedence of the feature
\* flags (legacy, else grouped, else default): the value a pass returns for
\* a controlled slice is the one so resolved from the props of the pass.
C9_ValuePrecedenceAsFlags ==
    \A s \in Slices :
      handlers[s].isControlled => current[s] = LegacyFirstValue(tprops, s)

\* C10: a handler of a controlled slice never calls the useState setter of
\* the slice; a setter call is queued only by a handler of an uncontrolled
\* slice, and a useState value changes only to the value last queued for it.
C10_OwnershipPurity ==
    [][ \A s \in Slices :
          /\ (handlers[s].isControlled /\ lastCall'.slice = s)
               => (lastCall'.setter = << >> /\ pending'[s] = pending[s]
                     /\ store'[s] = store[s])
          /\ (pending'[s] # pending[s] /\ pending'[s] # << >>)
               => (~handlers[s].isControlled /\ lastCall'.slice = s)
          /\ store'[s] # store[s]
               => (pending[s] # << >> /\ store'[s] = pending[s][Len(pending[s])])
      ]_vars

\* C10's case: the handler of a controlled slice has been called and has
\* invoked the caller's callback; nothing is queued for its useState.
C10_Witness ==
    \E s \in Slices :
      /\ Called(s)
      /\ handlers[s].isControlled
      /\ Len(lastCall.callback) = 1
      /\ lastCall.setter = << >>
      /\ pending[s] = << >>

\* The step is a render pass: the record of the last handler call is cleared.
Pass == lastCall'.slice = "none"

\* The value updater u yields for slice s when applied to v0.
Resolved1(u, s, v0) ==
    IF u.kind = "function" THEN ApplyFn(u.fn, s, v0) ELSE u.value

\* C11: for a slice that is uncontrolled, with current value v0, a handler
\* call with the literal v1 makes the value read in the next pass v1, and a
\* call with a function f makes it f(v0).
C11_UncontrolledEcho ==
    [][ \A s \in Slices :
          (/\ Pass
           /\ Called(s)
           /\ ~handlers[s].isControlled
           /\ ~handlers'[s].isControlled)
            => current'[s] = Resolved1(lastCall.updater, s, current[s])
      ]_vars

\* C11's case: the uncontrolled pagination slice reads page 1 of size 10
\* after a pass; no props and no literal give that value, it is the result
\* of prev => next page applied to the default, page 0 of size 10.
C11_Witness ==
    /\ ~handlers["pagination"].isControlled
    /\ lastCall = NoCall
    /\ current["pagination"] = [ pageIndex |-> 1, pageSize |-> 10 ]
    /\ store["pagination"] = current["pagination"]

\* The values the caller supplies for slice s in props p, grouped and flat.
SuppliedValues(p, s) ==
    [ grouped |-> Restrict(p.state, DOMAIN p.state \cap {s}),
      flat    |-> Restrict(p.flat, DOMAIN p.flat \cap FlatPropsOf(s)) ]

\* C12: for a controlled slice, a handler call with the literal v1 invokes
\* the caller's callback exactly once, with v1; and when the next pass has
\* the same values for the slice in its props (and the slice is still
\* controlled) the value read is the one read before the call.
C12_ControlledNonMutation ==
    [][ \A s \in Slices :
          /\ (/\ lastCall'.slice = s
              /\ handlers[s].isControlled
              /\ lastCall'.updater.kind = "value")
               => lastCall'.callback =
                    << [ fn |-> OnChange(tprops, s), arg |-> lastCall'.updater.value ] >>
          /\ (/\ Pass
              /\ Called(s)
              /\ handlers[s].isControlled
              /\ handlers'[s].isControlled
              /\ SuppliedValues(tprops', s) = SuppliedValues(tprops, s))
               => current'[s] = current[s]
      ]_vars

\* C12's case: the handler of a controlled slice has been called with a
\* literal that differs from the value of the pass, and the callback has
\* received it.
C12_Witness ==
    \E s \in Slices :
      /\ Called(s)
      /\ handlers[s].isControlled
      /\ lastCall.updater.kind = "value"
      /\ lastCall.updater.value # current[s]
      /\ Len(lastCall.callback) = 1
      /\ lastCall.callback[1].arg = lastCall.updater.value

\* C13: the handler of a controlled slice, called with a function, hands
\* the caller's callback the function's result for the value the props of
\* the pass provide (or the default when they provide none); called with a
\* value, it hands the callback that value.
C13_UpdaterResolution ==
    \A s \in Slices :
      (Called(s) /\ handlers[s].isControlled)
        => lastCall.callback =
             << [ fn  |-> OnChange(tprops, s),
                  arg |-> Resolved1(lastCall.updater, s, InitialValue(tprops, s)) ] >>

\* C13's case: a function of prev has been applied to the value props.state
\* provides for a controlled slice, a value the slice's useState does not
\* hold, and the callback has received the result.
C13_Witness ==
    \E s \in Slices :
      /\ Called(s)
      /\ handlers[s].isControlled
      /\ lastCall.updater.kind = "function"
      /\ lastCall.updater.fn = "next"
      /\ s \in DOMAIN tprops.state
      /\ store[s] # tprops.state[s]
      /\ lastCall.callback[1].arg = NextValue(s, tprops.state[s])

\* The value of slice s after the updaters of the calls cs[1..n] made on s
\* have been applied one after the other, starting from v.
RECURSIVE ResolveAll(_, _, _, _)
ResolveAll(cs, n, s, v) ==
    IF n = 0 THEN v
    ELSE LET w == ResolveAll(cs, n - 1, s, v)
         IN  IF cs[n].slice = s THEN Resolved1(cs[n].updater, s, w) ELSE w

\* C15: for an uncontrolled slice, every handler call resolves its updater
\* against the value left by all the calls before it, those made since the
\* last pass included: the value the next pass stores is the one obtained by
\* applying the updaters one after the other to the stored value.
C15_NoStaleValue ==
    \A s \in Slices :
      ~handlers[s].isControlled
        => Commit(store[s], pending[s]) = ResolveAll(calls, Len(calls), s, store[s])

C18_NoMigrationOnFlip ==
    [][ \A s \in Slices :
          /\ Pass =>
               /\ handlers'[s].isControlled <=> Truthy(OnChange(tprops', s))
               /\ store'[s] = Commit(store[s], pending[s])
               /\ (handlers[s].isControlled /\ ~handlers'[s].isControlled)
                    => current'[s] = store[s]
               /\ (~handlers[s].isControlled /\ handlers'[s].isControlled)
                    => current'[s] = InitialValue(tprops', s)
          /\ handlers[s].isControlled => store'[s] = store[s]
      ]_vars

\* C18's case: the pagination slice is controlled and reads the caller's
\* value while its useState holds page 1 of size 10, a value only a handler
\* call on the uncontrolled slice can have produced: a callback was added
\* and the stored value was kept.
C18_Witness ==
    /\ handlers["pagination"].isControlled
    /\ store["pagination"] = [ pageIndex |-> 1, pageSize |-> 10 ]
    /\ current["pagination"] = InitialValue(tprops, "pagination")
    /\ current["pagination"] # store["pagination"]

CalledThrowing(s) ==
    /\ lastCall.slice = s
    /\ lastCall.updater.kind = "function"
    /\ lastCall.updater.fn = "throws"

\* C14: a handler call whose updater throws throws to its caller and has
\* called neither the useState setter nor the caller's callback, for a
\* controlled and for an uncontrolled slice; and no pass fails afterwards, so
\* that the value of the slice can be read and is the one before the call.
C14_UpdaterExceptionSafety ==
    /\ \A s \in Slices :
         CalledThrowing(s)
           => /\ lastCall.threw
              /\ lastCall.setter = << >>
              /\ lastCall.callback = << >>
    /\ ~crashed

\* C17: every handler call that returns has made exactly one call, of the
\* caller's callback when the slice is controlled and of the slice's
\* useState setter when it is not, and has started no fetch.
C17_ExactlyOneEffect ==
    [][ \A s \in Slices :
          (lastCall'.slice = s /\ ~lastCall'.threw)
            => /\ Len(lastCall'.callback) + Len(lastCall'.setter) = 1
               /\ handlers[s].isControlled <=> Len(lastCall'.callback) = 1
               /\ ~handlers[s].isControlled <=> Len(lastCall'.setter) = 1
               /\ UNCHANGED <<inflight, started>>
      ]_vars

\* C17's cases: a call on an uncontrolled slice that has made one setter
\* call and no callback call.
C17_Witness ==
    \E s \in Slices :
      /\ Called(s)
      /\ ~handlers[s].isControlled
      /\ Len(lastCall.setter) = 1
      /\ lastCall.callback = << >>
      /\ pending[s] # << >>
      /\ inflight = {}

----------------------------------------------------------------------------
(* Properties of useServerSideData.                                        *)

Range(q) == { q[i] : i \in DOMAIN q }

\* A step in which a call of the hook's fetchData ends in its catch block.
FetchFailed == lastSettled' # lastSettled /\ ~lastSettled'.ok

FetchSucceeded == lastSettled' # lastSettled /\ lastSettled'.ok

C23_NoRefetchLoop ==
    [][ \A f \in inflight' \ inflight : f.forced \/ query' # query ]_vars

\* C29: the hook calls serverOptions.fetchData only when a fetch function
\* is configured and manualPagination, manualSorting, manualFiltering or
\* force is true, and then with the table state of the moment of the call; a
\* call of fetchData that does not fetch changes none of isLoading, data,
\* pageCount, totalRowCount and error (only the start of a fetch and its
\* settlement do).
C29_FetchGating ==
    /\ (inflight # {})
         = /\ serverOptions.fetchData = FetchFn
           /\ \/ serverOptions.manualPagination
              \/ serverOptions.manualSorting
              \/ serverOptions.manualFiltering
    /\ [][ /\ \A f \in inflight' \ inflight :
               /\ serverOptions.fetchData = FetchFn
               /\ \/ serverOptions.manualPagination
                  \/ serverOptions.manualSorting
                  \/ serverOptions.manualFiltering
                  \/ f.forced
               /\ f.query = query'
            /\ inflight' = inflight => fetchState' = fetchState
         ]_vars

\* C29's case: no manual flag is set, so the mount and the passes have
\* fetched nothing, the table state has changed, and a call fetchData(true)
\* has started a fetch for the table state of that moment.
C29_Witness ==
    /\ ~serverOptions.manualPagination
    /\ ~serverOptions.manualSorting
    /\ ~serverOptions.manualFiltering
    /\ query = 1
    /\ started = 1
    /\ inflight = { [ id |-> 1, query |-> 1, forced |-> TRUE ] }
    /\ fetchState.isLoading

----------------------------------------------------------------------------
(* Properties of the class-name configuration.                             *)

C25_SetDefaultMerges ==
    /\ provider.present =>
         \A k \in ClassKeys :
           provider.defaultClassNames[k] =
             IF k \in DOMAIN provider.initialClassNames
             THEN provider.initialClassNames[k]
             ELSE DEFAULT_TABLE_CLASSNAMES[k]
    /\ [][ provider.present =>
             \A k \in ClassKeys :
               provider'.defaultClassNames[k] =
                 IF lastSet' # lastSet /\ k \in DOMAIN lastSet'.value
                 THEN lastSet'.value[k]
                 ELSE provider.defaultClassNames[k]
         ]_vars

\* C25's case: the provider was mounted with a class for "table", a call has
\* set "tbodyRow" and the last call has set "table" to undefined: "table"
\* holds the value of the last call, "tbodyRow" that of the earlier call and
\* "thead" the initial value.
C25_Witness ==
    /\ provider.present
    /\ DOMAIN provider.initialClassNames = { "table" }
    /\ provider.initialClassNames["table"] = "custom"
    /\ lastSet.supplied
    /\ DOMAIN lastSet.value = { "table" }
    /\ lastSet.value["table"] = Undefined
    /\ provider.defaultClassNames["table"] = Undefined
    /\ provider.defaultClassNames["tbodyRow"] = "custom"
    /\ provider.defaultClassNames["thead"] = DEFAULT_TABLE_CLASSNAMES["thead"]

\* C26: a call of useTableConfig outside a provider throws the error
\* "useTableConfig must be used within a TableConfigProvider"; inside one it
\* returns the provider's defaultClassNames and setDefaultClassNames.  A
\* render pass that calls useDefaultTableClassNames does not throw, and
\* without a provider it gets the built-in defaults.
C26_ConfigOutsideProvider ==
    [][ /\ configResult' # configResult =>
             IF provider.present
             THEN /\ ~configResult'.threw
                  /\ configResult'.defaultClassNames = provider.defaultClassNames
                  /\ configResult'.setDefaultClassNames
             ELSE /\ configResult'.threw
                  /\ configResult'.message = ProviderMessage
        /\ adapter' # adapter =>
             /\ ~adapter'.threw
             /\ ~provider.present =>
                  \A k \in ClassKeys :
                    (adapter'.classNames.supplied
                       => k \notin DOMAIN adapter'.classNames.value)
                      => adapter'.merged[k] = DEFAULT_TABLE_CLASSNAMES[k]
      ]_vars

\* C26's case: there is no provider; useTableConfig has thrown, and a
\* TableAdapter without classNames has rendered with the built-in defaults.
C26_Witness ==
    /\ ~provider.present
    /\ configResult.called
    /\ configResult.threw
    /\ configResult.message = ProviderMessage
    /\ adapter.rendered
    /\ ~adapter.classNames.supplied
    /\ adapter.merged["table"] = DEFAULT_TABLE_CLASSNAMES["table"]

----------------------------------------------------------------------------
(* Properties of the server options.                                       *)

\* A prop that holds a value: neither undefined nor null.
HoldsValue(x) == x \notin { Undefined, Null }

\* C27: when neither server.autoResetPageIndex nor the flat
\* autoResetPageIndex is supplied, the autoResetPageIndex handed to the grid
\* engine is the negation of the manualPagination handed to it; when one is
\* supplied it is a supplied value, the grouped one when both are.  The same
\* for the component of src/src/TableAdapter.tsx with its flat props.
C27_AutoResetDefault ==
    /\ IF ~HoldsValue(sprops.groupedAutoResetPageIndex)
          /\ ~HoldsValue(sprops.flatAutoResetPageIndex)
       THEN server.grouped.autoResetPageIndex
              = Negate(server.grouped.manualPagination)
       ELSE server.grouped.autoResetPageIndex
              = IF HoldsValue(sprops.groupedAutoResetPageIndex)
                THEN sprops.groupedAutoResetPageIndex
                ELSE sprops.flatAutoResetPageIndex
    /\ IF ~HoldsValue(sprops.flatAutoResetPageIndex)
       THEN server.direct.autoResetPageIndex
              = Negate(server.direct.manualPagination)
       ELSE server.direct.autoResetPageIndex = sprops.flatAutoResetPageIndex
    /\ server.grouped.manualPagination \in JsBooleans
    /\ server.direct.manualPagination \in JsBooleans

\* C27's case: server-side pagination asked for through the grouped prop,
\* no autoResetPageIndex supplied, after a pass: the engine gets
\* manualPagination true and autoResetPageIndex false.
C27_Witness ==
    /\ sprops.groupedManualPagination = "true"
    /\ sprops.flatManualPagination = Undefined
    /\ sprops.groupedAutoResetPageIndex = Undefined
    /\ sprops.flatAutoResetPageIndex = Undefined
    /\ server.grouped.manualPagination = "true"
    /\ server.grouped.autoResetPageIndex = "false"

----------------------------------------------------------------------------
(* Properties of useTableExport.                                           *)

\* C28: a CSV export made with exportSelection = true writes exactly the
\* rows that are selected in the table, in the order of the data; one made
\* with exportSelection false or absent writes all rows of the data.
C28_ExportSelection ==
    [][ exported' # exported =>
          exported'.rows =
            IF exported'.exportSelection = "true"
            THEN FilterSelected(exportData, rowSelection, 1)
            ELSE exportData
      ]_vars

----------------------------------------------------------------------------
(* Properties of useTableForm.                                             *)

\* The cells that fail their rule once React has run the setter calls made
\* so far: the rows of the validation errors to come.
FailingRows == DOMAIN ApplyQueue(formState, formQueue).validationErrors

\* A step in which handleSubmit has been called (and has not done exactly
\* what the call before it did).
Submitted == lastSubmit' # lastSubmit

\* C30, first sentence: handleSubmit returns false, calls nothing and
\* changes nothing when validationErrors is not empty; otherwise it calls
\* onSubmit, when supplied, once with formData, sets isDirty to false and
\* returns true.
C30_SubmitGate ==
    [][ Submitted =>
          IF DOMAIN formState.validationErrors # {}
          THEN /\ ~lastSubmit'.returned
               /\ lastSubmit'.onSubmit = << >>
               /\ UNCHANGED <<formState, formQueue>>
          ELSE /\ lastSubmit'.returned
               /\ lastSubmit'.onSubmit
                    = IF formIn.onSubmit THEN << formState.formData >> ELSE << >>
               /\ formQueue' = Append(formQueue, SubmitEntry)
               /\ ~ApplyQueue(formState', formQueue').isDirty
      ]_vars

\* C30: the first sentence, and hence: after any sequence of cell edits
\* onSubmit is not called while a cell edited since the last reset fails
\* its validation rule.
C30_SubmitBlockedByErrors ==
    [][ Submitted =>
          /\ IF DOMAIN formState.validationErrors # {}
             THEN /\ ~lastSubmit'.returned
                  /\ lastSubmit'.onSubmit = << >>
                  /\ UNCHANGED <<formState, formQueue>>
             ELSE /\ lastSubmit'.returned
                  /\ lastSubmit'.onSubmit
                       = IF formIn.onSubmit
                         THEN << formState.formData >> ELSE << >>
                  /\ formQueue' = Append(formQueue, SubmitEntry)
          /\ lastSubmit'.onSubmit # << >> => FailingRows = {}
      ]_vars

\* A render pass that runs the setter calls of a resetForm, no handler
\* having been called after it.
ResetApplied ==
    /\ formQueue # << >>
    /\ formQueue' = << >>
    /\ formQueue[Len(formQueue)].kind = "reset"

\* C31: once resetForm has been applied, every cell of formData has the
\* value of the initial data as the caller supplied it, validationErrors is
\* empty and isDirty is false; and no step changes the rows of the caller's
\* initialData array.
C31_ResetRestores ==
    [][ /\ ResetApplied =>
             /\ formState'.formData = OriginalRows
             /\ formState'.validationErrors = NoErrors
             /\ ~formState'.isDirty
        /\ InitialDataRows(formState') = OriginalRows
      ]_vars

\* The entry of an error map for a cell: the message, if there is one.
ErrorAt(errors, r, c) ==
    IF r \in DOMAIN errors /\ c \in DOMAIN errors[r]
    THEN << errors[r][c] >> ELSE << >>

\* The position in q of the last call handleCellChange(r, c, ...), or 0.
LastEdit(q, r, c) ==
    LET I == { i \in DOMAIN q :
                 q[i].kind = "edit" /\ q[i].row = r /\ q[i].col = c }
    IN  IF I = {} THEN 0 ELSE CHOOSE i \in I : \A j \in I : j <= i

\* A render pass that runs the setter calls of handleCellChange calls (and
\* of submissions), no resetForm among them.
EditsApplied ==
    /\ formQueue # << >>
    /\ formQueue' = << >>
    /\ \A i \in DOMAIN formQueue : formQueue[i].kind # "reset"

\* The error map follows the edits: a pass that runs edits leaves, for every
\* cell of a column with a rule that was edited, the
\* message its rule returned for the last value written, or no entry when
\* that result is one of noMessage; every other cell keeps its entry, and no
\* row is left with an empty record.
ErrorsFollowEdits(noMessage) ==
    EditsApplied =>
        /\ \A r \in FormRows, c \in FormColumns :
             LET i == LastEdit(formQueue, r, c)
             IN  ErrorAt(formState'.validationErrors, r, c) =
                   IF c \notin RuledColumns \/ i = 0
                   THEN ErrorAt(formState.validationErrors, r, c)
                   ELSE IF Rule(c, formQueue[i].value) \in noMessage
                        THEN << >>
                        ELSE << Rule(c, formQueue[i].value) >>
        /\ \A r \in DOMAIN formState'.validationErrors :
             DOMAIN formState'.validationErrors[r] # {}

\* C32 as stated: validationErrors starts empty and then has an entry for a cell exactly when the
\* last validated edit of the cell made its rule return a message that is
\* not null, the entry is that message, and no row maps to an empty record;
\* edits of columns without a rule change nothing.
C32_ErrorMapNonNull ==
    /\ formState.validationErrors = NoErrors
    /\ [][ErrorsFollowEdits({ Null })]_vars

\* What the code keeps instead: the same with the test the code makes,
\* if (error), under which a result that is null or the empty string stores
\* no entry and removes the one there is.
C32_ErrorMapTruthy ==
    /\ formState.validationErrors = NoErrors
    /\ [][ErrorsFollowEdits({ Null, "" })]_vars

\* The cell was given a value that fails its rule, and the pass after the
\* edits has stored the message of the last value written.
ErrorStored ==
    /\ formQueue = << >>
    /\ formState.isDirty
    /\ formState.formData[0]["age"] = "worse"
    /\ DOMAIN formState.validationErrors = { 0 }
    /\ DOMAIN formState.validationErrors[0] = { "age" }
    /\ formState.validationErrors[0]["age"] = "too low"

----------------------------------------------------------------------------
(* Properties of the loading flag and of the rows and error shown.         *)

\* C33: isLoading of useServerSideData is true in every state in which a
\* started fetch has not settled, also when two fetches overlap and only the
\* first has completed, and false once every started fetch has settled.
C33_LoadingTracksInflight ==
    fetchState.isLoading <=> (inflight # {})

\* The half of it the code keeps: with no fetch in flight the flag is down.
LoadingEndsWithFetches ==
    (inflight = {}) => ~fetchState.isLoading

\* The last pass of the component has seen the fetch that settled last, and
\* that fetch succeeded; a fetch function is configured, form mode is off.
ShowsLastFetch ==
    /\ serverOptions.fetchData # Undefined
    /\ ~gprops.formMode
    /\ lastSettled.ok
    /\ grid.settleSeen = lastSettled.id

\* C34: with server.fetchData configured and form mode off, after a fetch
\* has completed successfully the rows handed to the table are exactly the
\* rows that fetch returned, an empty result included.
C34_GridShowsFetchedRows ==
    ShowsLastFetch =>
        /\ grid.data = lastSettled.result.data
        /\ grid.tableData = lastSettled.result.data

\* What the code keeps instead: the fetched rows when there are any, the
\* caller's rows when the result is empty.
GridShowsFetchedOrCallerRows ==
    ShowsLastFetch =>
        grid.data = IF lastSettled.result.data # << >>
                    THEN lastSettled.result.data ELSE gprops.data

\* The component has rendered with all there is to see, the error prop is
\* null, the hook holds no error, and the fetch that settled last, if any,
\* succeeded.
NoErrorSource ==
    /\ ~renderDue
    /\ gprops.error = << >>
    /\ fetchState.error = << >>
    /\ lastSettled.id = 0 \/ lastSettled.ok

\* C35: the component's error follows its sources: once props.error is null
\* again and the most recent fetch has succeeded the error is null and
\* renderError is no longer shown; an error never outlives all its sources.
C35_ErrorFollowsSources ==
    NoErrorSource =>
        /\ grid.error = << >>
        /\ grid.view = "table"

\* The half of it the code keeps: an error of the caller or of the hook,
\* once the component has rendered with it, is in the error state.
ErrorAppears ==
    (~renderDue /\ (gprops.error # << >> \/ fetchState.error # << >>))
        => grid.error # << >>

====
